---- MODULE Spec2Model ----
(***************************************************************************)
(* Verification / registration pipeline of the testing platform.          *)
(*                                                                         *)
(* The repository holds two server entry points over the same flat-file   *)
(* store layout (data/users.json, verifications.json, notifications.json):*)
(*   - the two-step server (send-code, verify-code-step1,                 *)
(*     complete-registration) with the Telegraf bot it loads in-process   *)
(*     and the stand-alone ESM bot process;                                *)
(*   - the one-step server src/server.js (send-code, verify-code) with    *)
(*     its in-process node-telegram-bot-api handler.                       *)
(* A behaviour runs one of them, chosen by `deployment`.                   *)
(*                                                                         *)
(* A handler is an operator from the store it reads, the clock and the    *)
(* request to its outcome: the response it sends (`res`) and the files as *)
(* it leaves them.  The action of the handler installs the files.         *)
(*                                                                         *)
(* JavaScript strings that the code takes apart (telegram handles,        *)
(* usernames) are sequences of one-character strings; "" is <<>>.         *)
(* The clock `now` counts units of 30 minutes.                             *)
(***************************************************************************)
EXTENDS Integers, Sequences, FiniteSets, TLC

\* ---------------------------------------------------------------- bounds
MaxRequests == 2
MaxUsers == 2
MaxNotifications == 1
MaxTime == 2
MaxTests == 1
MaxResults == 2
MaxIds == 8
MaxStoreIds == 6
MaxHeld == 1
MaxSweeps == 2
MaxAttempts == 3

\* 30 * 60 * 1000 ms, in clock units of 30 minutes
TTL == 1

\* ---------------------------------------------------------------- values
Codes == {"100000", "999999"}

AdminName == <<"admin">>

\* handles a web client types into the registration form
IssueHandles == {<<"a">>, <<"@", "A">>, <<"b">>}
\* handles a web client submits to the confirmation endpoint
ConfirmHandles == IssueHandles \cup {<<"A">>}
\* usernames a web client asks for at registration
UsernameInputs == {<<"a">>, <<"b">>, AdminName}
\* handles a web client submits at registration
RegistrationHandles == {<<"a">>}

\* request bodies of send-code: every field given, or one of them missing
IssueBodies ==
    {[telegram |-> t, name |-> "N", phone |-> "P"] : t \in IssueHandles}
    \cup {[telegram |-> <<>>, name |-> "N", phone |-> "P"],
          [telegram |-> <<"a">>, name |-> "", phone |-> "P"],
          [telegram |-> <<"a">>, name |-> "N", phone |-> ""]}

\* request bodies of verify-code-step1 over the userIds ids
Step1Bodies(ids) ==
    {[telegram |-> t, code |-> c, userId |-> u] : t \in ConfirmHandles, c \in Codes, u \in ids}
    \cup {[telegram |-> <<>>, code |-> "100000", userId |-> 1],
          [telegram |-> <<"a">>, code |-> "", userId |-> 1],
          [telegram |-> <<"a">>, code |-> "100000", userId |-> 0]}

\* request bodies of complete-registration over the userIds ids
CompletionBodies(ids) ==
    LET full == [userId |-> 1, username |-> <<"a">>, password |-> "pw", name |-> "N",
                 phone |-> "P", telegram |-> <<"a">>]
    IN  {[full EXCEPT !.userId = u, !.username = un, !.telegram = t] :
            u \in ids, un \in UsernameInputs, t \in RegistrationHandles}
        \cup {[full EXCEPT !.userId = 0], [full EXCEPT !.username = <<>>],
              [full EXCEPT !.password = ""], [full EXCEPT !.name = ""],
              [full EXCEPT !.phone = ""], [full EXCEPT !.telegram = <<>>]}

\* Telegram accounts talking to the bot: ctx.from.username and ctx.chat.id
BotClients ==
    {[username |-> <<"a">>, chatId |-> 1],
     [username |-> <<"b">>, chatId |-> 2],
     [username |-> <<>>, chatId |-> 2]}
\* the Telegram account that talks to the stand-alone bot
EsmClients == {[username |-> <<"a">>, chatId |-> 1]}

\* bodies of verify-code of the one-step server over the userIds ids
LegacyVerifyBodies(ids) ==
    LET full == [telegram |-> <<"a">>, code |-> "100000", name |-> "N", password |-> "pw",
                 userId |-> 1]
    IN  {[full EXCEPT !.telegram = t, !.code = c, !.userId = u] :
            t \in IssueHandles, c \in Codes, u \in ids}
        \cup {[full EXCEPT !.telegram = <<>>], [full EXCEPT !.code = ""],
              [full EXCEPT !.name = ""], [full EXCEPT !.password = ""],
              [full EXCEPT !.userId = 0]}

VARIABLES
    deployment,      \* "api": two-step server with its in-process Telegraf bot;
                     \* "esm": two-step server beside the stand-alone ESM bot process;
                     \* "root": the one-step server src/server.js with its bot handler
    faults,          \* what may fail in this behaviour: "files" (reads and writes of
                     \* the data files), "transport" (sendMessage calls of the bot)
    now,             \* wall clock
    uuid,            \* number of uuidv4() values minted so far
    users,           \* data/users.json
    verifications,   \* data/verifications.json
    notifications,   \* data/notifications.json
    esm,             \* the ESM bot's handler suspended at an await
    tests,           \* data/tests.json
    results,         \* data/results.json
    verification,    \* data/verification.json, the file the ESM bot's /code reads
    online,          \* whether the bot process is running and polling
    inbox,           \* messages sent to the bot while it is down, held by Telegram
    attempts,        \* sendMessage calls of the sweeps so far, by notification id
    sweeps           \* the ESM bot's sendPendingNotifications runs suspended at an await

vars ==
    <<deployment, faults, now, uuid, users, verifications, notifications, esm, tests, results,
      verification, online, inbox, attempts, sweeps>>

\* the variables of the bot process and its transport
channel == <<verification, online, inbox, attempts, sweeps>>

\* ---------------------------------------------------------------- strings
Lower(ch) == IF ch = "A" THEN "a" ELSE IF ch = "B" THEN "b" ELSE ch

toLowerCase(s) == [i \in 1..Len(s) |-> Lower(s[i])]

startsWithAt(s) == Len(s) > 0 /\ s[1] = "@"

\* "@" + username
PrependAt(s) == <<"@">> \o s

\* mutant: the leading "@" is kept
CleanTelegramKept(telegram) == telegram

\* cleanTelegram: strip one leading "@"
CleanTelegram(telegram) == IF startsWithAt(telegram) THEN Tail(telegram) ELSE telegram

\* ---------------------------------------------------------------- store
\* outcomes of one file operation: TRUE = succeeded
Outcomes == IF "files" \in faults THEN BOOLEAN ELSE {TRUE}

\* readDataFile: the parsed collection, or [] when the read throws
readDataFile(file, ok) == IF ok THEN file ELSE <<>>

\* writeDataFile: the file after the call (unchanged when the write throws)
writeDataFile(file, data, ok) == IF ok THEN data ELSE file

\* Array.prototype.find as an index: given the set of indices whose element passes
\* the predicate, the first of them, or 0 when there is none
FindIndex(passing) ==
    IF passing = {} THEN 0 ELSE CHOOSE i \in passing : \A j \in passing : i <= j

HasField(r, f) == f \in DOMAIN r

\* mutant: the expiry comparison is dropped
UnexpiredAlways(v, t) == TRUE

\* new Date(v.expiresAt) > new Date()
Unexpired(v, t) == v.expiresAt > t


\* ---------------------------------------------------------------- responses
\* res.status(status).json(body)
Http(status, body) == [channel |-> "http", status |-> status, body |-> body]

\* the ctx.reply / sendMessage texts of one bot handler run, in order
Bot(replies) == [channel |-> "bot", replies |-> replies]

Error(tag) == [error |-> tag]

Reply(kind) == [kind |-> kind]

\* "Sizning tasdiqlash kodingiz: ${code}"
CodeReply(code) == [kind |-> "code", code |-> code]

\* ---------------------------------------------------------------- initial state
AdminUser == [id |-> 1, username |-> AdminName, name |-> "Administrator", role |-> "admin"]

\* no notification has been attempted by a sweep
NoAttempts == <<>>

\* the bot is up and has been since the files were created: no ESM file, no held
\* update, no sweep under way
NoChannel ==
    /\ verification = <<>>
    /\ online = TRUE
    /\ inbox = <<>>
    /\ attempts = NoAttempts
    /\ sweeps = <<>>

Init ==
    /\ deployment \in {"api", "esm", "root"}
    /\ faults = {}
    /\ now = 0
    /\ uuid = 1
    /\ users = <<AdminUser>>
    /\ verifications = <<>>
    /\ notifications = <<>>
    /\ esm = [pc |-> "idle"]
    /\ tests = <<>>
    /\ results = <<>>
    /\ NoChannel

\* the same, in an environment whose file system may fail
InitFaulty ==
    /\ deployment \in {"api", "esm", "root"}
    /\ faults = {"files"}
    /\ now = 0
    /\ uuid = 1
    /\ users = <<AdminUser>>
    /\ verifications = <<>>
    /\ notifications = <<>>
    /\ esm = [pc |-> "idle"]
    /\ tests = <<>>
    /\ results = <<>>
    /\ NoChannel

TwoStep == deployment \in {"api", "esm"}

\* ---------------------------------------------------------------- two-step server
\* mutant: expires every request of the handle, whatever its status
ExpireExistingAnyStatus(vs, cleanTelegram) ==
    [i \in 1..Len(vs) |->
        IF toLowerCase(vs[i].telegram) = toLowerCase(cleanTelegram)
        THEN [vs[i] EXCEPT !.status = "expired"]
        ELSE vs[i]]

\* the forEach that expires existing codes of the handle
ExpireExisting(vs, cleanTelegram) ==
    [i \in 1..Len(vs) |->
        IF toLowerCase(vs[i].telegram) = toLowerCase(cleanTelegram) /\ vs[i].status = "pending"
        THEN [vs[i] EXCEPT !.status = "expired"]
        ELSE vs[i]]

NewVerification(id, userId, cleanTelegram, name, phone, code, t) ==
    [id |-> id, userId |-> userId, telegram |-> cleanTelegram, name |-> name,
     phone |-> phone, code |-> code, status |-> "pending",
     createdAt |-> t, expiresAt |-> t + TTL]

\* mutant: the response echoes the code
SendCodeResponseWithCode(userId, code) ==
    [message |-> "go-to-telegram-bot", userId |-> userId, code |-> code]

\* res.json({message, userId}) of send-code; code is in scope but not sent
SendCodeResponse(userId, code) == [message |-> "go-to-telegram-bot", userId |-> userId]

\* POST /api/auth/send-code on verifications.json = vs, with ids uuids minted before
\* and Math.random() giving code
IssueOutcome(vs, ids, t, telegram, name, phone, code, rok, wok) ==
    IF telegram = <<>>
    THEN [res |-> Http(400, Error("telegram-required")), verifications |-> vs, uuid |-> ids]
    ELSE IF name = ""
    THEN [res |-> Http(400, Error("name-required")), verifications |-> vs, uuid |-> ids]
    ELSE IF phone = ""
    THEN [res |-> Http(400, Error("phone-required")), verifications |-> vs, uuid |-> ids]
    ELSE LET userId == ids + 1
             id == ids + 2
             read == readDataFile(vs, rok)
             cleanTelegram == CleanTelegram(telegram)
             pushed == Append(ExpireExisting(read, cleanTelegram),
                              NewVerification(id, userId, cleanTelegram, name, phone, code, t))
         IN  [res |-> Http(200, SendCodeResponse(userId, code)),
              verifications |-> writeDataFile(vs, pushed, wok),
              uuid |-> ids + 2]

IssueCode(telegram, name, phone) ==
    /\ TwoStep
    /\ telegram # <<>> /\ name # "" /\ phone # "" => Len(verifications) < MaxRequests
    /\ \E code \in Codes, rok \in Outcomes, wok \in Outcomes :
        LET o == IssueOutcome(verifications, uuid, now, telegram, name, phone, code, rok, wok)
        IN  /\ verifications' = o.verifications
            /\ uuid' = o.uuid
    /\ UNCHANGED <<channel, tests, results, deployment, faults, now, users, notifications, esm>>

\* mutant: the userId comparison is dropped
Step1MatchesAnyUser(v, telegram, code, userId, t) ==
    /\ v.telegram = telegram
    /\ v.code = code
    /\ v.status = "pending"
    /\ Unexpired(v, t)

\* the predicate of verify-code-step1's find
Step1Matches(v, telegram, code, userId, t) ==
    /\ v.telegram = telegram
    /\ v.code = code
    /\ v.status = "pending"
    /\ v.userId = userId
    /\ Unexpired(v, t)

Step1Failure == Http(400, Error("invalid-or-expired-code"))

\* mutant: an elapsed code is reported apart from a wrong one
Step1OutcomeGranular(vs, t, telegram, code, userId, rok, wok) ==
    IF telegram = <<>> \/ code = "" \/ userId = 0
    THEN [res |-> Http(400, Error("all-fields-required")), verifications |-> vs]
    ELSE LET read == readDataFile(vs, rok)
             Match(v) == Step1Matches(v, telegram, code, userId, t)
             Stale(v) == Step1Matches(v, telegram, code, userId, v.createdAt)
             i == FindIndex({n \in 1..Len(read) : Match(read[n])})
         IN  IF i = 0 /\ FindIndex({n \in 1..Len(read) : Stale(read[n])}) # 0
             THEN [res |-> Http(400, Error("expired-code")), verifications |-> vs]
             ELSE IF i = 0
             THEN [res |-> Step1Failure, verifications |-> vs]
             ELSE [res |-> Http(200, [message |-> "code-confirmed"]),
                   verifications |->
                       writeDataFile(vs, [read EXCEPT ![i].status = "step1-verified"], wok)]

\* POST /api/auth/verify-code-step1
Step1Outcome(vs, t, telegram, code, userId, rok, wok) ==
    IF telegram = <<>> \/ code = "" \/ userId = 0
    THEN [res |-> Http(400, Error("all-fields-required")), verifications |-> vs]
    ELSE LET read == readDataFile(vs, rok)
             Match(v) == Step1Matches(v, telegram, code, userId, t)
             i == FindIndex({n \in 1..Len(read) : Match(read[n])})
         IN  IF i = 0
             THEN [res |-> Step1Failure, verifications |-> vs]
             ELSE [res |-> Http(200, [message |-> "code-confirmed"]),
                   verifications |->
                       writeDataFile(vs, [read EXCEPT ![i].status = "step1-verified"], wok)]

ConfirmStep1(telegram, code, userId) ==
    /\ TwoStep
    /\ \E rok \in Outcomes, wok \in Outcomes :
        verifications' = Step1Outcome(verifications, now, telegram, code, userId, rok, wok).verifications
    /\ UNCHANGED <<channel, tests, results, deployment, faults, now, uuid, users, notifications, esm>>

\* mutant: a completed request is accepted again
CompletionMatchesCompleted(v, userId, t) ==
    /\ v.userId = userId
    /\ v.status \in {"step1-verified", "completed"}
    /\ Unexpired(v, t)

\* the predicate of complete-registration's find
CompletionMatches(v, userId, t) ==
    /\ v.userId = userId
    /\ v.status = "step1-verified"
    /\ Unexpired(v, t)

\* mutant: the username check is dropped
UsernameTakenNever(us, username) == FALSE

\* users.some((u) => u.username === username)
UsernameTaken(us, username) == \E k \in 1..Len(us) : us[k].username = username

NewUser(userId, username, name, phone, telegram) ==
    [id |-> userId, username |-> username, name |-> name, phone |-> phone,
     role |-> "student", telegram |-> telegram]

\* the user object of the registration responses
PublicUser(u) == [id |-> u.id, username |-> u.username, name |-> u.name, role |-> u.role]

\* jwt.sign({id, username, role}, secret)
Token(u) == [id |-> u.id, username |-> u.username, role |-> u.role]

RegistrationNotFound == Http(400, Error("invalid-or-expired-registration"))

\* mutant: a taken username is answered like a missing request
RegistrationConflictAsNotFound == RegistrationNotFound

RegistrationConflict == Http(400, Error("username-taken"))

\* POST /api/auth/complete-registration
CompletionOutcome(us, vs, t, userId, username, password, name, phone, telegram, urok, vrok, uwok, vwok) ==
    IF userId = 0 \/ username = <<>> \/ password = "" \/ name = "" \/ phone = "" \/ telegram = <<>>
    THEN [res |-> Http(400, Error("all-fields-required")), users |-> us, verifications |-> vs]
    ELSE LET usersRead == readDataFile(us, urok)
             read == readDataFile(vs, vrok)
             Match(v) == CompletionMatches(v, userId, t)
             i == FindIndex({n \in 1..Len(read) : Match(read[n])})
             newUser == NewUser(userId, username, name, phone, telegram)
         IN  IF UsernameTaken(usersRead, username)
             THEN [res |-> RegistrationConflict, users |-> us, verifications |-> vs]
             ELSE IF i = 0
             THEN [res |-> RegistrationNotFound, users |-> us, verifications |-> vs]
             ELSE [res |-> Http(200, [message |-> "registered", token |-> Token(newUser),
                                      user |-> PublicUser(newUser)]),
                   users |-> writeDataFile(us, Append(usersRead, newUser), uwok),
                   verifications |->
                       writeDataFile(vs, [read EXCEPT ![i].status = "completed"], vwok)]

CompleteRegistration(userId, username, password, name, phone, telegram) ==
    /\ TwoStep
    /\ \E urok \in Outcomes, vrok \in Outcomes, uwok \in Outcomes, vwok \in Outcomes :
        LET o == CompletionOutcome(users, verifications, now, userId, username, password,
                                   name, phone, telegram, urok, vrok, uwok, vwok)
        IN  /\ Len(o.users) <= MaxUsers
            /\ users' = o.users
            /\ verifications' = o.verifications
    /\ UNCHANGED <<channel, tests, results, deployment, faults, now, uuid, notifications, esm>>

\* identifiers a client can put in the userId field: the admin's id and every userId
\* that send-code has handed out
UserIdInputs == {AdminUser.id} \cup {verifications[i].userId : i \in 1..Len(verifications)}

\* ---------------------------------------------------------------- Telegraf bot (in-process)
\* outcomes of the sendMessage call behind a ctx.reply: TRUE = delivered
TransportOutcomes == IF "transport" \in faults THEN BOOLEAN ELSE {TRUE}

\* ctx.reply is called without await or catch: a failed send is a promise rejected
\* with no handler, which Node reports with a warning or by ending the process,
\* according to its --unhandled-rejections mode (default "warn" before v15, "throw"
\* from v15)
RejectionModes == {"warn", "throw"}

\* whether the process still runs after a handler that made the replies res.replies
Survives(res, sok, mode) == Len(res.replies) = 0 \/ sok \/ mode = "warn"

\* readData / writeData of the bot module
readData(file, ok) == IF ok THEN file ELSE <<>>

writeData(file, data, ok) == IF ok THEN data ELSE file

\* r with r.f = val (the field is added when r has none)
SetField(r, f, val) == [g \in DOMAIN r \cup {f} |-> IF g = f THEN val ELSE r[g]]

\* users.find((user) => user.chatId === chatId || (username && user.username === username))
ExistingUser(us, username, chatId) ==
    LET P(user) == \/ (HasField(user, "chatId") /\ user.chatId = chatId)
                   \/ (username # <<>> /\ user.username = username)
    IN  FindIndex({n \in 1..Len(us) : P(us[n])})

\* mutant: bot.start works on the file as it is when it writes
StartUsersOnFile(file, read, username, chatId, ok) ==
    LET k == ExistingUser(file, username, chatId)
    IN  IF k = 0
        THEN writeData(file, Append(file, [chatId |-> chatId, username |-> username]), ok)
        ELSE IF ~HasField(file[k], "chatId") \/ file[k].chatId # chatId
        THEN writeData(file, [file EXCEPT ![k] = SetField(file[k], "chatId", chatId)], ok)
        ELSE file

\* users.json as bot.start leaves it, having read the collection `read`
StartUsers(file, read, username, chatId, ok) ==
    LET k == ExistingUser(read, username, chatId)
    IN  IF k = 0
        THEN writeData(file, Append(read, [chatId |-> chatId, username |-> username]), ok)
        ELSE IF ~HasField(read[k], "chatId") \/ read[k].chatId # chatId
        THEN writeData(file, [read EXCEPT ![k] = SetField(read[k], "chatId", chatId)], ok)
        ELSE file

\* the predicate of checkPendingVerification's find
PendingMatches(v, username, t) ==
    /\ \/ toLowerCase(v.telegram) = toLowerCase(username)
       \/ toLowerCase(v.telegram) = PrependAt(toLowerCase(username))
    /\ v.status = "pending"
    /\ Unexpired(v, t)

\* logNotification's record
NewNotification(id, userId, telegram, code, chatId, t) ==
    [id |-> id, userId |-> userId, telegram |-> telegram, code |-> code, chatId |-> chatId,
     createdAt |-> t, sent |-> TRUE, sentAt |-> t]

\* checkPendingVerification(ctx, username) with logNotification: the replies it adds
\* to `sofar`, and notifications.json = ns as it leaves it
LookupOutcome(vs, ns, ids, t, sofar, username, chatId, vrok, nrok, nwok) ==
    IF username = <<>>
    THEN [res |-> Bot(sofar), notifications |-> ns, uuid |-> ids]
    ELSE LET read == readData(vs, vrok)
             Match(v) == PendingMatches(v, username, t)
             i == FindIndex({n \in 1..Len(read) : Match(read[n])})
         IN  IF i = 0
             THEN [res |-> Bot(Append(sofar, Reply("no-active-code"))),
                   notifications |-> ns, uuid |-> ids]
             ELSE [res |-> Bot(Append(sofar, CodeReply(read[i].code))),
                   notifications |->
                       writeData(ns, Append(readData(ns, nrok),
                                            NewNotification(ids + 1, read[i].userId, username,
                                                            read[i].code, chatId, t)), nwok),
                   uuid |-> ids + 1]

\* bot.start
StartOutcome(us, vs, ns, ids, t, username, chatId, urok, uwok, vrok, nrok, nwok) ==
    IF username = <<>>
    THEN [res |-> Bot(<<Reply("set-username")>>), users |-> us, notifications |-> ns, uuid |-> ids]
    ELSE LET l == LookupOutcome(vs, ns, ids, t, <<Reply("welcome")>>, username, chatId,
                                vrok, nrok, nwok)
         IN  [res |-> l.res,
              users |-> StartUsers(us, readData(us, urok), username, chatId, uwok),
              notifications |-> l.notifications,
              uuid |-> l.uuid]

BotStart(username, chatId) ==
    /\ deployment = "api"
    /\ online
    /\ \E urok \in Outcomes, uwok \in Outcomes, vrok \in Outcomes, nrok \in Outcomes, nwok \in Outcomes :
      \E sok \in TransportOutcomes, mode \in RejectionModes :
        LET o == StartOutcome(users, verifications, notifications, uuid, now, username, chatId,
                              urok, uwok, vrok, nrok, nwok)
        IN  /\ Len(o.users) <= MaxUsers
            /\ Len(o.notifications) <= MaxNotifications
            /\ users' = o.users
            /\ notifications' = o.notifications
            /\ uuid' = o.uuid
            /\ online' = Survives(o.res, sok, mode)
    /\ UNCHANGED <<verification, inbox, attempts, sweeps, tests, results, deployment, faults, now, verifications, esm>>

\* bot.command("code")
CodeOutcome(vs, ns, ids, t, username, chatId, vrok, nrok, nwok) ==
    IF username = <<>>
    THEN [res |-> Bot(<<Reply("set-username")>>), notifications |-> ns, uuid |-> ids]
    ELSE LookupOutcome(vs, ns, ids, t, <<>>, username, chatId, vrok, nrok, nwok)

BotCode(username, chatId) ==
    /\ deployment = "api"
    /\ online
    /\ \E vrok \in Outcomes, nrok \in Outcomes, nwok \in Outcomes :
      \E sok \in TransportOutcomes, mode \in RejectionModes :
        LET o == CodeOutcome(verifications, notifications, uuid, now, username, chatId,
                             vrok, nrok, nwok)
        IN  /\ Len(o.notifications) <= MaxNotifications
            /\ notifications' = o.notifications
            /\ uuid' = o.uuid
            /\ online' = Survives(o.res, sok, mode)
    /\ UNCHANGED <<verification, inbox, attempts, sweeps, tests, results, deployment, faults, now, users, verifications, esm>>

\* bot.on("text"); sixDigits is /^\d{6}$/.test(text)
TextOutcome(vs, ns, ids, t, username, chatId, sixDigits, vrok, nrok, nwok) ==
    IF sixDigits
    THEN [res |-> Bot(<<Reply("not-a-code")>>), notifications |-> ns, uuid |-> ids]
    ELSE LookupOutcome(vs, ns, ids, t, <<>>, username, chatId, vrok, nrok, nwok)

BotText(username, chatId, sixDigits) ==
    /\ deployment = "api"
    /\ online
    /\ \E vrok \in Outcomes, nrok \in Outcomes, nwok \in Outcomes :
      \E sok \in TransportOutcomes, mode \in RejectionModes :
        LET o == TextOutcome(verifications, notifications, uuid, now, username, chatId,
                             sixDigits, vrok, nrok, nwok)
        IN  /\ Len(o.notifications) <= MaxNotifications
            /\ notifications' = o.notifications
            /\ uuid' = o.uuid
            /\ online' = Survives(o.res, sok, mode)
    /\ UNCHANGED <<verification, inbox, attempts, sweeps, tests, results, deployment, faults, now, users, verifications, esm>>

\* ---------------------------------------------------------------- stand-alone ESM bot
\* bot.start up to the resumption after `await readData(USERS_FILE)`
EsmStartRead(username, chatId) ==
    /\ deployment = "esm"
    /\ online
    /\ esm.pc = "idle"
    /\ username # <<>>
    /\ \E urok \in Outcomes :
        esm' = [pc |-> "read", users |-> readData(users, urok),
                username |-> username, chatId |-> chatId]
    /\ UNCHANGED <<channel, tests, results, deployment, faults, now, uuid, users, verifications, notifications>>

\* bot.start from that resumption to its reply
EsmStartWrite ==
    /\ deployment = "esm"
    /\ esm.pc = "read"
    /\ \E uwok \in Outcomes :
        LET written == StartUsers(users, esm.users, esm.username, esm.chatId, uwok)
        IN  /\ Len(written) <= MaxUsers
            /\ users' = written
    /\ esm' = [pc |-> "idle"]
    /\ UNCHANGED <<channel, tests, results, deployment, faults, now, uuid, verifications, notifications>>

\* bot.command('code') on data/verification.json = vf: the entry whose `username` is
\* '@' + ctx.from.username, whatever its age or status
EsmCodeOutcome(vf, username, chatId, rok, wok) ==
    IF username = <<>>
    THEN [res |-> Bot(<<Reply("set-username")>>), verification |-> vf]
    ELSE LET read == readData(vf, rok)
             i == FindIndex({n \in 1..Len(read) : /\ HasField(read[n], "username")
                                                  /\ read[n].username = PrependAt(username)})
         IN  IF i = 0
             THEN [res |-> Bot(<<Reply("no-code-found")>>), verification |-> vf]
             ELSE [res |-> Bot(<<CodeReply(read[i].code)>>),
                   verification |->
                       writeData(vf, [read EXCEPT ![i] = SetField(read[i], "chatId", chatId)],
                                 wok)]

EsmCode(username, chatId) ==
    /\ deployment = "esm"
    /\ online
    /\ \E rok \in Outcomes, wok \in Outcomes :
        verification' = EsmCodeOutcome(verification, username, chatId, rok, wok).verification
    /\ UNCHANGED <<online, inbox, attempts, sweeps, tests, results, deployment, faults, now, uuid,
                   users, verifications, notifications, esm>>

\* ---------------------------------------------------------------- bot process and sweeps
\* notifications.filter(n => !n.sent), as positions
PendingNotifications(ns) == {i \in 1..Len(ns) : ~(HasField(ns[i], "sent") /\ ns[i].sent)}

\* notification.sent = true; notification.sentAt = new Date().toISOString()
MarkSent(n, t) == SetField(SetField(n, "sent", TRUE), "sentAt", t)

\* the ids of the pending notifications of ns from position i on, in file order
RECURSIVE PendingIdsFrom(_, _)
PendingIdsFrom(ns, i) ==
    IF i > Len(ns) THEN <<>>
    ELSE (IF i \in PendingNotifications(ns) THEN <<ns[i].id>> ELSE <<>>)
         \o PendingIdsFrom(ns, i + 1)

\* sendPendingNotifications(bot) of the in-process bot: sendMessage is called and not
\* awaited, so every pending notification is marked whatever becomes of the send
ReplayOutcome(ns, log, t, rok, wok) ==
    LET read == readData(ns, rok)
        marked == [i \in 1..Len(read) |->
                      IF i \in PendingNotifications(read) THEN MarkSent(read[i], t)
                      ELSE read[i]]
    IN  IF Len(read) = 0
        THEN [notifications |-> ns, attempts |-> log]
        ELSE [notifications |-> writeData(ns, marked, wok),
              attempts |-> log \o PendingIdsFrom(read, 1)]

\* a message to the bot while it is not polling: Telegram keeps the update
UserMessageHeld(username, chatId, kind) ==
    /\ ~online
    /\ Len(inbox) < MaxHeld
    /\ inbox' = Append(inbox, [username |-> username, chatId |-> chatId, kind |-> kind])
    /\ UNCHANGED <<verification, online, attempts, sweeps, tests, results, deployment, faults, now,
                   uuid, users, verifications, notifications, esm>>

\* initializeBot: bot.launch({dropPendingUpdates: true}).then(() =>
\* sendPendingNotifications(bot))
ApiLaunch ==
    /\ deployment = "api"
    /\ ~online
    /\ \E nrok \in Outcomes, nwok \in Outcomes :
      \E sok \in TransportOutcomes, mode \in RejectionModes :
        LET o == ReplayOutcome(notifications, attempts, now, nrok, nwok)
        IN  /\ Len(o.attempts) <= MaxAttempts
            /\ notifications' = o.notifications
            /\ attempts' = o.attempts
            /\ online' = (o.attempts = attempts \/ sok \/ mode = "warn")
    /\ inbox' = <<>>
    /\ UNCHANGED <<verification, sweeps, tests, results, deployment, faults, now, uuid, users,
                   verifications, esm>>

\* bot.launch() of the ESM bot: the held updates stay queued for its handlers
EsmLaunch ==
    /\ deployment = "esm"
    /\ ~online
    /\ online' = TRUE
    /\ UNCHANGED <<verification, inbox, attempts, sweeps, tests, results, deployment, faults, now,
                   uuid, users, verifications, notifications, esm>>

\* the ESM bot takes the oldest held update: bot.start up to its first await, or
\* bot.command('code')
EsmDrain ==
    /\ deployment = "esm"
    /\ online
    /\ inbox # <<>>
    /\ LET u == Head(inbox)
       IN  IF u.kind = "start"
           THEN /\ esm.pc = "idle"
                /\ \E urok \in Outcomes :
                    esm' = [pc |-> "read", users |-> readData(users, urok),
                            username |-> u.username, chatId |-> u.chatId]
                /\ UNCHANGED verification
           ELSE /\ \E rok \in Outcomes, wok \in Outcomes :
                    verification' =
                        EsmCodeOutcome(verification, u.username, u.chatId, rok, wok).verification
                /\ UNCHANGED esm
    /\ inbox' = Tail(inbox)
    /\ UNCHANGED <<online, attempts, sweeps, tests, results, deployment, faults, now, uuid, users,
                   verifications, notifications>>

\* the bot process ends (bot.stop on SIGINT or SIGTERM, or a crash): its suspended
\* handlers end with it
BotStop ==
    /\ deployment \in {"api", "esm"}
    /\ online
    /\ online' = FALSE
    /\ esm' = [pc |-> "idle"]
    /\ sweeps' = <<>>
    /\ UNCHANGED <<verification, inbox, attempts, tests, results, deployment, faults, now, uuid,
                   users, verifications, notifications>>

\* sendPendingNotifications() of the ESM bot, called by setInterval every minute and
\* once after launch, up to the resumption after `await readData(NOTIFICATIONS_FILE)`
EsmSweepRead ==
    /\ deployment = "esm"
    /\ online
    /\ Len(sweeps) < MaxSweeps
    /\ \E nrok \in Outcomes :
        LET read == readData(notifications, nrok)
        IN  /\ Len(read) # 0
            /\ sweeps' = Append(sweeps, [notifications |-> read,
                                         todo |-> PendingNotifications(read)])
    /\ UNCHANGED <<verification, online, inbox, attempts, tests, results, deployment, faults, now,
                   uuid, users, verifications, notifications, esm>>

\* one turn of its loop: `await bot.telegram.sendMessage(..)`, and the mark only when
\* the send succeeded
EsmSweepSend(k) ==
    /\ deployment = "esm"
    /\ k \in 1..Len(sweeps)
    /\ sweeps[k].todo # {}
    /\ Len(attempts) < MaxAttempts
    /\ LET i == CHOOSE j \in sweeps[k].todo : \A l \in sweeps[k].todo : j <= l
           held == sweeps[k].notifications
       IN  /\ attempts' = Append(attempts, held[i].id)
           /\ \E sok \in TransportOutcomes :
                sweeps' = [sweeps EXCEPT ![k] =
                    [notifications |-> IF sok THEN [held EXCEPT ![i] = MarkSent(held[i], now)]
                                       ELSE held,
                     todo |-> sweeps[k].todo \ {i}]]
    /\ UNCHANGED <<verification, online, inbox, tests, results, deployment, faults, now, uuid,
                   users, verifications, notifications, esm>>

\* the end of the run: `await writeData(NOTIFICATIONS_FILE, notifications)`
EsmSweepWrite(k) ==
    /\ deployment = "esm"
    /\ k \in 1..Len(sweeps)
    /\ sweeps[k].todo = {}
    /\ \E nwok \in Outcomes :
        notifications' = writeData(notifications, sweeps[k].notifications, nwok)
    /\ sweeps' = SubSeq(sweeps, 1, k - 1) \o SubSeq(sweeps, k + 1, Len(sweeps))
    /\ UNCHANGED <<verification, online, inbox, attempts, tests, results, deployment, faults, now,
                   uuid, users, verifications, esm>>

\* ---------------------------------------------------------------- one-step server (src/server.js)
\* the forEach that expires existing codes of the handle
LegacyExpireExisting(vs, telegram) ==
    [i \in 1..Len(vs) |->
        IF vs[i].telegram = telegram /\ vs[i].status = "pending"
        THEN [vs[i] EXCEPT !.status = "expired"]
        ELSE vs[i]]

LegacyNewVerification(id, userId, telegram, code, t) ==
    [id |-> id, userId |-> userId, telegram |-> telegram, code |-> code, status |-> "pending",
     createdAt |-> t, expiresAt |-> t + TTL]

\* res.json({message, userId}) of send-code; code is in scope but not sent
LegacySendCodeResponse(userId, code) == [message |-> "code-sent-to-bot", userId |-> userId]

\* POST /api/auth/send-code
LegacyIssueOutcome(vs, ids, t, telegram, code, rok, wok) ==
    IF telegram = <<>>
    THEN [res |-> Http(400, Error("telegram-required")), verifications |-> vs, uuid |-> ids]
    ELSE LET userId == ids + 1
             id == ids + 2
             read == readDataFile(vs, rok)
             pushed == Append(LegacyExpireExisting(read, telegram),
                              LegacyNewVerification(id, userId, telegram, code, t))
         IN  [res |-> Http(200, LegacySendCodeResponse(userId, code)),
              verifications |-> writeDataFile(vs, pushed, wok),
              uuid |-> ids + 2]

LegacyIssueCode(telegram) ==
    /\ deployment = "root"
    /\ telegram # <<>> => Len(verifications) < MaxRequests
    /\ \E code \in Codes, rok \in Outcomes, wok \in Outcomes :
        LET o == LegacyIssueOutcome(verifications, uuid, now, telegram, code, rok, wok)
        IN  /\ verifications' = o.verifications
            /\ uuid' = o.uuid
    /\ UNCHANGED <<channel, tests, results, deployment, faults, now, users, notifications, esm>>

LegacyNewUser(userId, telegram, name) ==
    [id |-> userId, username |-> telegram, name |-> name, role |-> "student",
     telegram |-> telegram]

\* POST /api/auth/verify-code
LegacyVerifyOutcome(us, vs, t, telegram, code, name, password, userId, vrok, urok, uwok, vwok) ==
    IF telegram = <<>> \/ code = "" \/ name = "" \/ password = "" \/ userId = 0
    THEN [res |-> Http(400, Error("all-fields-required")), users |-> us, verifications |-> vs]
    ELSE LET read == readDataFile(vs, vrok)
             Match(v) == Step1Matches(v, telegram, code, userId, t)
             i == FindIndex({n \in 1..Len(read) : Match(read[n])})
             usersRead == readDataFile(us, urok)
             newUser == LegacyNewUser(userId, telegram, name)
         IN  IF i = 0
             THEN [res |-> Http(400, Error("invalid-or-expired-code")),
                   users |-> us, verifications |-> vs]
             ELSE IF UsernameTaken(usersRead, telegram)
             THEN [res |-> Http(400, Error("username-taken")), users |-> us, verifications |-> vs]
             ELSE [res |-> Http(200, [message |-> "registered", token |-> Token(newUser),
                                      user |-> PublicUser(newUser)]),
                   users |-> writeDataFile(us, Append(usersRead, newUser), uwok),
                   verifications |->
                       writeDataFile(vs, [read EXCEPT ![i].status = "verified"], vwok)]

LegacyVerifyCode(telegram, code, name, password, userId) ==
    /\ deployment = "root"
    /\ \E vrok \in Outcomes, urok \in Outcomes, uwok \in Outcomes, vwok \in Outcomes :
        LET o == LegacyVerifyOutcome(users, verifications, now, telegram, code, name, password,
                                     userId, vrok, urok, uwok, vwok)
        IN  /\ Len(o.users) <= MaxUsers
            /\ users' = o.users
            /\ verifications' = o.verifications
    /\ UNCHANGED <<channel, tests, results, deployment, faults, now, uuid, notifications, esm>>

\* the predicate of the message handler's find
LegacyPendingMatches(v, username, t) ==
    /\ v.telegram = username
    /\ v.status = "pending"
    /\ Unexpired(v, t)

LegacyNewNotification(id, userId, telegram, code, t) ==
    [id |-> id, userId |-> userId, telegram |-> telegram, code |-> code, createdAt |-> t]

\* bot.on("message"): JSON.parse(fs.readFileSync(..)) throws into the handler's catch
LegacyMessageOutcome(vs, ns, ids, t, username, vrok, nrok, nwok) ==
    LET Match(v) == LegacyPendingMatches(v, username, t)
        i == IF vrok THEN FindIndex({n \in 1..Len(vs) : Match(vs[n])}) ELSE 0
    IN  IF i = 0
        THEN [res |-> Bot(<<>>), notifications |-> ns, uuid |-> ids]
        ELSE IF ~nrok
        THEN [res |-> Bot(<<CodeReply(vs[i].code)>>), notifications |-> ns, uuid |-> ids]
        ELSE [res |-> Bot(<<CodeReply(vs[i].code)>>),
              notifications |->
                  IF nwok
                  THEN Append(ns, LegacyNewNotification(ids + 1, vs[i].userId, username,
                                                        vs[i].code, t))
                  ELSE ns,
              uuid |-> ids + 1]

LegacyBotMessage(username) ==
    /\ deployment = "root"
    /\ \E vrok \in Outcomes, nrok \in Outcomes, nwok \in Outcomes :
        LET o == LegacyMessageOutcome(verifications, notifications, uuid, now, username,
                                      vrok, nrok, nwok)
        IN  /\ Len(o.notifications) <= MaxNotifications
            /\ notifications' = o.notifications
            /\ uuid' = o.uuid
    /\ UNCHANGED <<channel, tests, results, deployment, faults, now, users, verifications, esm>>

\* ---------------------------------------------------------------- tests and results
\* req.user of the callers of the test and result routes (the payload of their token)
Callers ==
    {[id |-> 1, role |-> "admin"], [id |-> 2, role |-> "student"]}

\* option lists an administrator gives a choice question: options with id and
\* `correct`; one, none or two of them flagged
OptionsOne == <<[id |-> "A", correct |-> TRUE], [id |-> "B", correct |-> FALSE]>>

OptionsNone == <<[id |-> "A", correct |-> FALSE], [id |-> "B", correct |-> FALSE]>>

OptionsTwo ==
    <<[id |-> "A", correct |-> TRUE], [id |-> "B", correct |-> TRUE],
      [id |-> "C", correct |-> FALSE]>>

\* questions as req.body.questions carries them (no id yet)
QuestionInputs ==
    {[type |-> "multiple-choice", options |-> OptionsOne],
     [type |-> "multiple-choice", options |-> OptionsTwo],
     [type |-> "multiple-choice", options |-> OptionsNone],
     [type |-> "multiple-answer", options |-> OptionsTwo],
     [type |-> "multiple-answer", options |-> OptionsNone],
     [type |-> "text", correctAnswer |-> <<" ", "A", "b">>]}

\* req.body.questions of POST /api/tests that pass its check: non-empty arrays
QuestionListInputs ==
    {<<q>> : q \in QuestionInputs}
    \cup {<<[type |-> "multiple-choice", options |-> OptionsOne],
            [type |-> "multiple-answer", options |-> OptionsTwo]>>,
          <<[type |-> "text", correctAnswer |-> <<" ", "A", "b">>],
            [type |-> "multiple-choice", options |-> OptionsOne]>>}

\* req.body of PUT /api/tests/:id
UpdateInputs == {[questions |-> <<>>]}

\* String.prototype.trim: the characters it strips
WhiteSpace == {" ", "\t", "\n"}

\* mutant: nothing is stripped
trimNothing(s) == s

\* String.prototype.trim
trim(s) ==
    LET kept == {i \in 1..Len(s) : s[i] \notin WhiteSpace}
        first == CHOOSE i \in kept : \A j \in kept : i <= j
        last == CHOOSE i \in kept : \A j \in kept : j <= i
    IN  IF kept = {} THEN <<>> ELSE SubSeq(s, first, last)

\* Array.prototype.includes
includes(array, x) == \E i \in 1..Len(array) : array[i] = x

\* question.options.filter((o) => o.correct).map((o) => o.id)
correctOptions(question) ==
    {question.options[i].id : i \in {j \in 1..Len(question.options) : question.options[j].correct}}

\* question.options.filter((o) => !o.correct).map((o) => o.id)
incorrectOptions(question) ==
    {question.options[i].id : i \in {j \in 1..Len(question.options) : ~question.options[j].correct}}

\* the grade of one answer: `threw` when evaluating it raises a TypeError
Threw == [threw |-> TRUE, correct |-> FALSE]

Graded(correct) == [threw |-> FALSE, correct |-> correct]

\* the multiple-choice branch: correctOption = options.find((o) => o.correct);
\* correctOption.id throws when no option is flagged
GradeChoice(question, answer) ==
    LET k == FindIndex({i \in 1..Len(question.options) : question.options[i].correct})
    IN  IF k = 0 THEN Threw
        ELSE Graded(HasField(answer, "optionId") /\ answer.optionId = question.options[k].id)

\* the multiple-answer branch
GradeSelection(question, answer) ==
    IF HasField(answer, "selectedOptions")
    THEN LET allCorrectSelected ==
                 \A id \in correctOptions(question) : includes(answer.selectedOptions, id)
             noIncorrectSelected ==
                 ~\E i \in 1..Len(answer.selectedOptions) :
                        answer.selectedOptions[i] \in incorrectOptions(question)
         IN  Graded(allCorrectSelected /\ noIncorrectSelected)
    ELSE Graded(FALSE)

\* the text branch: answer.text.trim() throws when the answer carries no text
GradeText(question, answer) ==
    IF ~HasField(answer, "text") THEN Threw
    ELSE Graded(toLowerCase(trim(answer.text)) = toLowerCase(trim(question.correctAnswer)))

\* test.questions.find((q) => q.id === answer.questionId), as an index
FindQuestion(test, answer) ==
    FindIndex({i \in 1..Len(test.questions) : test.questions[i].id = answer.questionId})

\* mutant: an answer for no question of the test raises an error
GradeAnswerStrict(test, answer) ==
    LET k == FindQuestion(test, answer)
        question == test.questions[k]
    IN  IF k = 0 THEN Threw
        ELSE IF question.type = "multiple-choice" THEN GradeChoice(question, answer)
        ELSE IF question.type = "multiple-answer" THEN GradeSelection(question, answer)
        ELSE IF question.type = "text" THEN GradeText(question, answer)
        ELSE Graded(FALSE)

\* the body of answers.map for one answer
GradeAnswer(test, answer) ==
    LET k == FindQuestion(test, answer)
        question == test.questions[k]
    IN  IF k = 0 THEN Graded(FALSE)
        ELSE IF question.type = "multiple-choice" THEN GradeChoice(question, answer)
        ELSE IF question.type = "multiple-answer" THEN GradeSelection(question, answer)
        ELSE IF question.type = "text" THEN GradeText(question, answer)
        ELSE Graded(FALSE)

\* a JavaScript number that is a quotient of naturals, as a fraction in lowest
\* terms; 0/0 is NaN and a/0 is Infinity
Gcd(a, b) ==
    LET m == IF a > b THEN a ELSE b
    IN  CHOOSE d \in 1..m :
            /\ a % d = 0 /\ b % d = 0
            /\ \A e \in (d + 1)..m : a % e # 0 \/ b % e # 0

Fraction(a, b) ==
    IF b = 0 THEN [num |-> IF a = 0 THEN 0 ELSE 1, den |-> 0]
    ELSE IF a = 0 THEN [num |-> 0, den |-> 1]
    ELSE [num |-> a \div Gcd(a, b), den |-> b \div Gcd(a, b)]

\* x / y and x * k on such numbers
Divide(a, b) == Fraction(a, b)

Times(x, k) == IF x.den = 0 THEN x ELSE Fraction(x.num * k, x.den)

\* mutant: the score is taken over the answers submitted
DenominatorAnswered(test, answers) == Len(answers)

\* test.questions.length, the divisor of the score and the stored totalQuestions
Denominator(test, answers) == Len(test.questions)

\* { ...answer, correct }
GradedAnswer(answer, correct) == SetField(answer, "correct", correct)

\* mutant: a submission after time 0 scores nothing
NewResultLate(id, testId, userId, gradedAnswers, correctCount, total, t) ==
    [id |-> id, testId |-> testId, userId |-> userId, answers |-> gradedAnswers,
     score |-> IF t > 0 THEN Fraction(0, total) ELSE Times(Divide(correctCount, total), 100),
     correctCount |-> IF t > 0 THEN 0 ELSE correctCount,
     totalQuestions |-> total, submittedAt |-> t]

\* newResult
NewResult(id, testId, userId, gradedAnswers, correctCount, total, t) ==
    [id |-> id, testId |-> testId, userId |-> userId, answers |-> gradedAnswers,
     score |-> Times(Divide(correctCount, total), 100), correctCount |-> correctCount,
     totalQuestions |-> total, submittedAt |-> t]

\* mutant: the response carries the graded answers too
ResultResponseWithAnswers(newResult) ==
    [id |-> newResult.id, score |-> newResult.score, correctCount |-> newResult.correctCount,
     totalQuestions |-> newResult.totalQuestions, answers |-> newResult.answers]

\* res.status(201).json({ id, score, correctCount, totalQuestions })
ResultResponse(newResult) ==
    [id |-> newResult.id, score |-> newResult.score, correctCount |-> newResult.correctCount,
     totalQuestions |-> newResult.totalQuestions]

\* mutant: a caller's earlier result for the test is replaced
PushResultReplacing(read, newResult) ==
    LET Other(r) == r.testId # newResult.testId \/ r.userId # newResult.userId
    IN  Append(SelectSeq(read, Other), newResult)

\* results.push(newResult)
PushResult(read, newResult) == Append(read, newResult)

\* the correct flags that answers.map computes
CorrectFlags(test, answers) ==
    [i \in 1..Len(answers) |-> GradeAnswer(test, answers[i]).correct]

\* mutant: only the answers are asked for
MissingAnswersOnly(body) == ~HasField(body, "answers")

\* !testId || !answers || !Array.isArray(answers)
MissingFields(body) == body.testId = 0 \/ ~HasField(body, "answers")

\* POST /api/results; a TypeError thrown in the handler reaches Express's error
\* handler, which answers 500
GradeOutcome(ts, rs, ids, t, caller, body, trok, rrok, rwok) ==
    IF MissingFields(body)
    THEN [res |-> Http(400, Error("all-fields-required")), results |-> rs, uuid |-> ids]
    ELSE LET read == readDataFile(ts, trok)
             k == FindIndex({i \in 1..Len(read) : read[i].id = body.testId})
             test == read[k]
             answers == body.answers
             flags == CorrectFlags(test, answers)
             gradedAnswers == [i \in 1..Len(answers) |-> GradedAnswer(answers[i], flags[i])]
             correctCount == Cardinality({i \in 1..Len(answers) : flags[i]})
             newResult == NewResult(ids + 1, body.testId, caller.id, gradedAnswers, correctCount,
                                    Denominator(test, answers), t)
         IN  IF k = 0
             THEN [res |-> Http(404, Error("test-not-found")), results |-> rs, uuid |-> ids]
             ELSE IF \E i \in 1..Len(answers) : GradeAnswer(test, answers[i]).threw
             THEN [res |-> Http(500, Error("internal-server-error")), results |-> rs,
                   uuid |-> ids]
             ELSE [res |-> Http(201, ResultResponse(newResult)),
                   results |-> writeDataFile(rs, PushResult(readDataFile(rs, rrok), newResult), rwok),
                   uuid |-> ids + 1]

\* answers a client sends for a question: the one the key asks for, and another
RightAnswer(q) ==
    IF q.type = "multiple-choice" THEN [questionId |-> q.id, optionId |-> "A"]
    ELSE IF q.type = "multiple-answer" THEN [questionId |-> q.id, selectedOptions |-> <<"A", "B">>]
    ELSE [questionId |-> q.id, text |-> <<"a", "B", " ">>]

OtherAnswer(q) ==
    IF q.type = "multiple-choice" THEN [questionId |-> q.id, optionId |-> "B"]
    ELSE IF q.type = "multiple-answer" THEN [questionId |-> q.id, selectedOptions |-> <<"A">>]
    ELSE [questionId |-> q.id]

\* an answer for a question the test does not have
StrayAnswer == [questionId |-> 0, optionId |-> "A"]

\* req.body.answers of the submissions for the stored test `test`
AnswerInputs(test) ==
    LET qs == test.questions
        right == [i \in 1..Len(qs) |-> RightAnswer(qs[i])]
        other == [i \in 1..Len(qs) |-> OtherAnswer(qs[i])]
    IN  {<<>>, right, other, <<StrayAnswer>> \o right, right \o right}

\* req.body of POST /api/results
GradeBodies ==
    {[testId |-> tests[k].id, answers |-> a] : k \in 1..Len(tests), a \in UNION {AnswerInputs(tests[j]) : j \in 1..Len(tests)}}
    \cup {[testId |-> 0, answers |-> <<>>], [testId |-> 99, answers |-> <<>>]}
    \cup {[testId |-> tests[k].id] : k \in 1..Len(tests)}

Grade(caller, body) ==
    /\ \E trok \in Outcomes, rrok \in Outcomes, rwok \in Outcomes :
        LET o == GradeOutcome(tests, results, uuid, now, caller, body, trok, rrok, rwok)
        IN  /\ Len(o.results) <= MaxResults
            /\ results' = o.results
            /\ uuid' = o.uuid
    /\ UNCHANGED <<channel, tests, deployment, faults, now, users, verifications, notifications, esm>>

\* adminOnly: the response to a caller who is no administrator
Forbidden == Http(403, Error("admin-only"))

NewTest(id, createdBy, questions) ==
    [id |-> id, title |-> "T", createdBy |-> createdBy, published |-> FALSE,
     questions |-> [i \in 1..Len(questions) |-> SetField(questions[i], "id", id + i)]]

\* POST /api/tests
CreateTestOutcome(ts, ids, caller, questions, rok, wok) ==
    IF caller.role # "admin"
    THEN [res |-> Forbidden, tests |-> ts, uuid |-> ids]
    ELSE IF Len(questions) = 0
    THEN [res |-> Http(400, Error("all-fields-required")), tests |-> ts, uuid |-> ids]
    ELSE LET newTest == NewTest(ids + 1, caller.id, questions)
         IN  [res |-> Http(201, newTest),
              tests |-> writeDataFile(ts, Append(readDataFile(ts, rok), newTest), wok),
              uuid |-> ids + 1 + Len(questions)]

CreateTest(caller, questions) ==
    /\ caller.role = "admin" /\ Len(questions) > 0 =>
            Len(tests) < MaxTests /\ uuid + 1 + Len(questions) <= MaxIds
    /\ \E rok \in Outcomes, wok \in Outcomes :
        LET o == CreateTestOutcome(tests, uuid, caller, questions, rok, wok)
        IN  tests' = o.tests /\ uuid' = o.uuid
    /\ UNCHANGED <<channel, results, deployment, faults, now, users, verifications, notifications, esm>>

\* mutant: the question is sent as it is stored
StudentQuestionAsStored(q) == q

\* o => ({ id: o.id, text: o.text }); an undefined field is left out of the JSON
StudentOption(o) == [f \in DOMAIN o \cap {"id", "text"} |-> o[f]]

\* q => ({ id, text, type, image, options: q.options ? q.options.map(..) : undefined })
StudentQuestion(q) ==
    [f \in DOMAIN q \cap {"id", "text", "type", "image", "options"} |->
        IF f = "options"
        THEN [i \in 1..Len(q.options) |-> StudentOption(q.options[i])]
        ELSE q[f]]

\* { ...test, questions: test.questions.map(..) }
TestForStudent(test) ==
    [test EXCEPT !.questions = [i \in 1..Len(test.questions) |-> StudentQuestion(test.questions[i])]]

\* GET /api/tests/:id
GetTestOutcome(ts, caller, id, rok) ==
    LET read == readDataFile(ts, rok)
        k == FindIndex({i \in 1..Len(read) : read[i].id = id})
    IN  IF k = 0 THEN Http(404, Error("test-not-found"))
        ELSE IF ~read[k].published /\ caller.role # "admin"
        THEN Http(403, Error("not-published"))
        ELSE IF caller.role # "admin" THEN Http(200, TestForStudent(read[k]))
        ELSE Http(200, read[k])

\* the route reads tests.json and writes nothing
GetTest(caller, id) ==
    /\ \E rok \in Outcomes : GetTestOutcome(tests, caller, id, rok).status \in {200, 403, 404}
    /\ UNCHANGED vars

\* { ...tests[testIndex], ...updates }
Merge(test, updates) ==
    [f \in DOMAIN test \cup DOMAIN updates |-> IF f \in DOMAIN updates THEN updates[f] ELSE test[f]]

\* PUT /api/tests/:id
UpdateTestOutcome(ts, caller, id, updates, rok, wok) ==
    LET read == readDataFile(ts, rok)
        k == FindIndex({i \in 1..Len(read) : read[i].id = id})
    IN  IF caller.role # "admin" THEN [res |-> Forbidden, tests |-> ts]
        ELSE IF k = 0 THEN [res |-> Http(404, Error("test-not-found")), tests |-> ts]
        ELSE [res |-> Http(200, Merge(read[k], updates)),
              tests |-> writeDataFile(ts, [read EXCEPT ![k] = Merge(read[k], updates)], wok)]

UpdateTest(caller, id, updates) ==
    /\ \E rok \in Outcomes, wok \in Outcomes :
        tests' = UpdateTestOutcome(tests, caller, id, updates, rok, wok).tests
    /\ UNCHANGED <<channel, results, deployment, faults, now, uuid, users, verifications, notifications, esm>>

\* PUT /api/tests/:id/publish
PublishTestOutcome(ts, caller, id, published, rok, wok) ==
    LET read == readDataFile(ts, rok)
        k == FindIndex({i \in 1..Len(read) : read[i].id = id})
    IN  IF caller.role # "admin" THEN [res |-> Forbidden, tests |-> ts]
        ELSE IF k = 0 THEN [res |-> Http(404, Error("test-not-found")), tests |-> ts]
        ELSE [res |-> Http(200, [message |-> IF published THEN "published" ELSE "unpublished"]),
              tests |-> writeDataFile(ts, [read EXCEPT ![k].published = published], wok)]

PublishTest(caller, id, published) ==
    /\ \E rok \in Outcomes, wok \in Outcomes :
        tests' = PublishTestOutcome(tests, caller, id, published, rok, wok).tests
    /\ UNCHANGED <<channel, results, deployment, faults, now, uuid, users, verifications, notifications, esm>>

\* DELETE /api/tests/:id
DeleteTestOutcome(ts, rs, caller, id, trok, twok, rrok, rwok) ==
    LET read == readDataFile(ts, trok)
        Kept(t) == t.id # id
        Unrelated(r) == r.testId # id
    IN  IF caller.role # "admin" THEN [res |-> Forbidden, tests |-> ts, results |-> rs]
        ELSE IF Len(SelectSeq(read, Kept)) = Len(read)
        THEN [res |-> Http(404, Error("test-not-found")), tests |-> ts, results |-> rs]
        ELSE [res |-> Http(200, [message |-> "test-deleted"]),
              tests |-> writeDataFile(ts, SelectSeq(read, Kept), twok),
              results |-> writeDataFile(rs, SelectSeq(readDataFile(rs, rrok), Unrelated), rwok)]

DeleteTest(caller, id) ==
    /\ \E trok \in Outcomes, twok \in Outcomes, rrok \in Outcomes, rwok \in Outcomes :
        LET o == DeleteTestOutcome(tests, results, caller, id, trok, twok, rrok, rwok)
        IN  tests' = o.tests /\ results' = o.results
    /\ UNCHANGED <<channel, deployment, faults, now, uuid, users, verifications, notifications, esm>>

\* ids a client can put in :id and testId: those of the stored tests, and one of none
TestIdInputs == {tests[k].id : k \in 1..Len(tests)} \cup {99}

\* ---------------------------------------------------------------- time
Tick ==
    /\ now < MaxTime
    /\ now' = now + 1
    /\ UNCHANGED <<channel, tests, results, deployment, faults, uuid, users, verifications, notifications, esm>>

\* ---------------------------------------------------------------- specification
Next ==
    \/ \E b \in IssueBodies : IssueCode(b.telegram, b.name, b.phone)
    \/ \E b \in Step1Bodies(UserIdInputs) : ConfirmStep1(b.telegram, b.code, b.userId)
    \/ \E b \in CompletionBodies(UserIdInputs) :
            CompleteRegistration(b.userId, b.username, b.password, b.name, b.phone, b.telegram)
    \/ \E c \in BotClients : BotStart(c.username, c.chatId)
    \/ \E c \in BotClients : BotCode(c.username, c.chatId)
    \/ \E c \in BotClients, six \in BOOLEAN : BotText(c.username, c.chatId, six)
    \/ \E c \in EsmClients : EsmStartRead(c.username, c.chatId)
    \/ EsmStartWrite
    \/ \E c \in EsmClients : EsmCode(c.username, c.chatId)
    \/ \E t \in IssueHandles \cup {<<>>} : LegacyIssueCode(t)
    \/ \E b \in LegacyVerifyBodies(UserIdInputs) :
            LegacyVerifyCode(b.telegram, b.code, b.name, b.password, b.userId)
    \/ \E c \in BotClients : LegacyBotMessage(c.username)
    \/ Tick

Spec == Init /\ [][Next]_vars

SpecFaulty == InitFaulty /\ [][Next]_vars

\* the test and result routes of the two-step server, on their own collections
InitGrading ==
    /\ deployment = "api"
    /\ faults = {}
    /\ now = 0
    /\ uuid = 2
    /\ users = <<AdminUser>>
    /\ verifications = <<>>
    /\ notifications = <<>>
    /\ esm = [pc |-> "idle"]
    /\ tests = <<>>
    /\ results = <<>>
    /\ NoChannel

NextGrading ==
    \/ \E c \in Callers, qs \in QuestionListInputs \cup {<<>>} : CreateTest(c, qs)
    \/ \E c \in Callers, id \in TestIdInputs, u \in UpdateInputs : UpdateTest(c, id, u)
    \/ \E c \in Callers, id \in TestIdInputs, p \in BOOLEAN : PublishTest(c, id, p)
    \/ \E c \in Callers, id \in TestIdInputs : DeleteTest(c, id)
    \/ \E c \in Callers, id \in TestIdInputs : GetTest(c, id)
    \/ \E c \in Callers, b \in GradeBodies : Grade(c, b)

SpecGrading == InitGrading /\ [][NextGrading]_vars

\* the four operations that read and write the store (send-code, verify-code-step1,
\* complete-registration, POST /api/results) with POST /api/tests, on a file system
\* whose reads and writes may fail
InitStore ==
    /\ deployment = "api"
    /\ faults = {"files"}
    /\ now = 0
    /\ uuid = 1
    /\ users = <<AdminUser>>
    /\ verifications = <<>>
    /\ notifications = <<>>
    /\ esm = [pc |-> "idle"]
    /\ tests = <<>>
    /\ results = <<>>
    /\ NoChannel

\* send-code bodies of one handle, and those with a field missing
StoreIssueBodies == {b \in IssueBodies : b.telegram \in {<<>>, <<"a">>}}

\* verify-code-step1 and complete-registration bodies of that handle and one
\* username, and those with a field missing
StoreStep1Bodies(ids) == {b \in Step1Bodies(ids) : b.telegram \in {<<>>, <<"a">>}}

StoreCompletionBodies(ids) == {b \in CompletionBodies(ids) : b.username \in {<<>>, <<"a">>, <<"b">>}}

StoreQuestionLists == {<<[type |-> "multiple-choice", options |-> OptionsOne]>>}

NextStore ==
    \/ /\ uuid + 2 <= MaxStoreIds
       /\ \E b \in StoreIssueBodies : IssueCode(b.telegram, b.name, b.phone)
    \/ \E b \in StoreStep1Bodies(UserIdInputs) : ConfirmStep1(b.telegram, b.code, b.userId)
    \/ \E b \in StoreCompletionBodies(UserIdInputs) :
            CompleteRegistration(b.userId, b.username, b.password, b.name, b.phone, b.telegram)
    \/ /\ uuid + 2 <= MaxStoreIds
       /\ \E c \in Callers, qs \in StoreQuestionLists \cup {<<>>} : CreateTest(c, qs)
    \/ /\ uuid < MaxStoreIds
       /\ \E c \in Callers, b \in GradeBodies : Grade(c, b)

SpecStore == InitStore /\ [][NextStore]_vars

\* the bot process over its life: down at first, launched, stopped and launched
\* again, with sends that may fail; the data directory may hold a record the
\* one-step server left, and web clients ask for codes while the bot is down
LeftNotification == LegacyNewNotification(2, 1, <<"a">>, "100000", 0)

InitRelay ==
    /\ deployment \in {"api", "esm"}
    /\ faults = {"transport"}
    /\ now = 0
    /\ uuid = 2
    /\ users = <<AdminUser>>
    /\ verifications = <<>>
    /\ notifications \in {<<>>, <<LeftNotification>>}
    /\ esm = [pc |-> "idle"]
    /\ tests = <<>>
    /\ results = <<>>
    /\ verification = <<>>
    /\ online = FALSE
    /\ inbox = <<>>
    /\ attempts = NoAttempts
    /\ sweeps = <<>>

UpdateKinds == {"start", "code"}

BotProcess ==
    \/ ApiLaunch
    \/ EsmLaunch
    \/ EsmDrain
    \/ EsmStartWrite
    \/ EsmSweepRead
    \/ \E k \in 1..MaxSweeps : EsmSweepSend(k)
    \/ \E k \in 1..MaxSweeps : EsmSweepWrite(k)

NextRelay ==
    \/ /\ ~online
       /\ IssueCode(<<"a">>, "N", "P")
    \/ \E c \in EsmClients, kind \in UpdateKinds : UserMessageHeld(c.username, c.chatId, kind)
    \/ \E c \in EsmClients : BotStart(c.username, c.chatId)
    \/ \E c \in EsmClients : BotCode(c.username, c.chatId)
    \/ \E c \in EsmClients : EsmStartRead(c.username, c.chatId)
    \/ \E c \in EsmClients : EsmCode(c.username, c.chatId)
    \/ BotProcess
    \/ BotStop
    \/ Tick

SpecRelay == InitRelay /\ [][NextRelay]_vars

\* the bot process is scheduled: a launch that is due happens, and an event-loop turn
\* that is ready runs
SpecRelayFair ==
    /\ SpecRelay
    /\ WF_vars(ApiLaunch)
    /\ WF_vars(EsmLaunch)
    /\ WF_vars(EsmDrain)
    /\ WF_vars(EsmStartWrite)
    /\ WF_vars(\E k \in 1..MaxSweeps : EsmSweepSend(k))
    /\ WF_vars(\E k \in 1..MaxSweeps : EsmSweepWrite(k))

\* ---------------------------------------------------------------- properties
\* the handle as the specification normalises it: leading "@" stripped, case-folded
Normalize(telegram) == toLowerCase(CleanTelegram(telegram))

Active(v) == v.status \in {"pending", "step1-verified"}

Requests == 1..Len(verifications)

\* a verify-code-step1 body that carries every required field
Step1Given(b) == b.telegram # <<>> /\ b.code # "" /\ b.userId # 0

\* a complete-registration body that carries every required field
CompletionGiven(b) ==
    /\ b.userId # 0 /\ b.username # <<>> /\ b.password # ""
    /\ b.name # "" /\ b.phone # "" /\ b.telegram # <<>>

Step1Result(b, rok, wok) ==
    Step1Outcome(verifications, now, b.telegram, b.code, b.userId, rok, wok)

CompletionResult(b, urok, vrok, uwok, vwok) ==
    CompletionOutcome(users, verifications, now, b.userId, b.username, b.password, b.name,
                      b.phone, b.telegram, urok, vrok, uwok, vwok)

\* C1: in every reachable state, each normalized handle has at most one request
\* whose status is pending or step1-verified (send-code expires the prior ones).
C1_OneActivePerHandle ==
    \A i \in Requests, j \in Requests :
        (i # j /\ Active(verifications[i]) /\ Active(verifications[j]))
            => Normalize(verifications[i].telegram) # Normalize(verifications[j].telegram)

C3_CompletionRequiresVerifiedRequest ==
    \A b \in CompletionBodies(UserIdInputs) :
        \A urok \in Outcomes, vrok \in Outcomes, uwok \in Outcomes, vwok \in Outcomes :
            LET o == CompletionResult(b, urok, vrok, uwok, vwok)
            IN  IF o.res.status = 200
                THEN /\ \A k \in 1..Len(users) : users[k].username # b.username
                     /\ Len(o.users) = Len(users) + 1
                     /\ SubSeq(o.users, 1, Len(users)) = users
                     /\ o.users[Len(o.users)].id = b.userId
                     /\ o.users[Len(o.users)].username = b.username
                     /\ \E i \in Requests :
                            /\ verifications[i].userId = b.userId
                            /\ verifications[i].status = "step1-verified"
                            /\ now <= verifications[i].expiresAt
                            /\ o.verifications = [verifications EXCEPT ![i].status = "completed"]
                ELSE o.users = users /\ o.verifications = verifications

\* a registration has completed: its request is completed and its user is stored
C3_Registered ==
    /\ TwoStep
    /\ \E i \in Requests, k \in 1..Len(users) :
        /\ verifications[i].status = "completed"
        /\ users[k].id = verifications[i].userId
        /\ users[k].role = "student"

\* whether complete-registration has succeeded for userId
Completed(userId) ==
    \E i \in Requests :
        verifications[i].userId = userId /\ verifications[i].status = "completed"

SpecStatuses == {"pending", "step1-verified", "expired", "completed"}

\* the moves the specification allows a stored status to make in one step
Forward(old, new) ==
    \/ new = old
    \/ old = "pending" /\ new \in {"step1-verified", "expired"}
    \/ old = "step1-verified" /\ new \in {"completed", "expired"}

\* C5: the stored status of a request is always one of pending, step1-verified,
\* expired, completed, and every operation leaves it or moves it forward
\* (pending -> step1-verified -> completed, pending -> expired,
\* step1-verified -> expired); completed and expired never change again.
C5_StatusMovesForward ==
    /\ [](\A i \in Requests : verifications[i].status \in SpecStatuses)
    /\ [][\A i \in Requests :
            /\ i <= Len(verifications')
            /\ Forward(verifications[i].status, verifications'[i].status)]_vars

\* every reply that any bot handler would send in this state
BotReplies ==
    UNION {
        {StartOutcome(users, verifications, notifications, uuid, now, c.username, c.chatId,
                      urok, uwok, vrok, nrok, nwok).res.replies,
         CodeOutcome(verifications, notifications, uuid, now, c.username, c.chatId,
                     vrok, nrok, nwok).res.replies,
         TextOutcome(verifications, notifications, uuid, now, c.username, c.chatId, FALSE,
                     vrok, nrok, nwok).res.replies,
         TextOutcome(verifications, notifications, uuid, now, c.username, c.chatId, TRUE,
                     vrok, nrok, nwok).res.replies,
         LegacyMessageOutcome(verifications, notifications, uuid, now, c.username,
                              vrok, nrok, nwok).res.replies} :
        c \in BotClients, urok \in Outcomes, uwok \in Outcomes, vrok \in Outcomes,
        nrok \in Outcomes, nwok \in Outcomes}

\* each stored request expires TTL after its creation, and a bot reply shows only
\* the code of a request whose expiresAt has not passed
ExpiryRespectedNow ==
    /\ \A i \in Requests : verifications[i].expiresAt = verifications[i].createdAt + TTL
    /\ \A replies \in BotReplies : \A r \in 1..Len(replies) :
            HasField(replies[r], "code") =>
                \E i \in Requests :
                    /\ verifications[i].code = replies[r].code
                    /\ now <= verifications[i].expiresAt

\* no step moves a request's expiresAt, and none makes it step1-verified,
\* completed or verified once now > expiresAt
ExpiryRespectedStep ==
    \A i \in Requests :
        /\ i <= Len(verifications')
        /\ verifications'[i].expiresAt = verifications[i].expiresAt
        /\ (/\ verifications'[i].status # verifications[i].status
            /\ verifications'[i].status \in {"step1-verified", "completed", "verified"})
                => now <= verifications[i].expiresAt

\* C6: every request has expiresAt = creation time + 30 minutes, and past its
\* expiresAt no request becomes step1-verified or completed or has its code shown,
\* whatever its stored status.
C6_ExpiryRespected == []ExpiryRespectedNow /\ [][ExpiryRespectedStep]_vars

\* a request stored as pending or step1-verified whose expiresAt has passed
C6_PastExpiry ==
    \E i \in Requests : Active(verifications[i]) /\ now > verifications[i].expiresAt

\* C7: a second send-code for handle h turns to expired exactly the prior pending
\* or step1-verified requests of h and leaves every other stored request as it was.
C7_IssueExpiresExactlyPriorActive ==
    [][\A b \in IssueBodies :
          (/\ b.telegram # <<>> /\ b.name # "" /\ b.phone # ""
           /\ IssueCode(b.telegram, b.name, b.phone))
              => /\ Len(verifications') = Len(verifications) + 1
                 /\ \A i \in Requests :
                        verifications'[i] =
                            IF /\ Normalize(verifications[i].telegram) = Normalize(b.telegram)
                               /\ Active(verifications[i])
                            THEN [verifications[i] EXCEPT !.status = "expired"]
                            ELSE verifications[i]]_vars

\* C8: the only change the pipeline ever makes to users is the insert of one record
\* by a successful registration, whose id is the userId of the request that the
\* same step consumes.
C8_UsersWrittenOnlyByRegistration ==
    [][users' # users =>
          /\ Len(users') = Len(users) + 1
          /\ SubSeq(users', 1, Len(users)) = users
          /\ HasField(users'[Len(users')], "id")
          /\ \E i \in Requests :
                /\ users'[Len(users')].id = verifications[i].userId
                /\ verifications'[i].status # verifications[i].status
                /\ verifications'[i].status \in {"completed", "verified"}]_vars

\* an HTTP response body that carries no code
NoCode(res) ==
    /\ ~HasField(res.body, "code")
    /\ HasField(res.body, "message") => res.body.message \notin Codes
    /\ HasField(res.body, "error") => res.body.error \notin Codes

\* C9: a successful send-code responds with the freshly allocated userId of the
\* request it stored and with nothing else but a fixed message; no HTTP response
\* of the pipeline carries a code.
C9_ResponseWithoutCode ==
    /\ \A b \in IssueBodies, code \in Codes, rok \in Outcomes, wok \in Outcomes :
        LET o == IssueOutcome(verifications, uuid, now, b.telegram, b.name, b.phone, code,
                              rok, wok)
            stored == o.verifications[Len(o.verifications)]
        IN  /\ NoCode(o.res)
            /\ o.res.status = 200 =>
                /\ DOMAIN o.res.body = {"message", "userId"}
                /\ Len(o.verifications) = Len(verifications) + 1
                /\ stored.userId = o.res.body.userId /\ stored.code = code
                /\ \A i \in Requests : verifications[i].userId # o.res.body.userId
                /\ \A k \in 1..Len(users) :
                        HasField(users[k], "id") => users[k].id # o.res.body.userId
    /\ \A b \in Step1Bodies(UserIdInputs), rok \in Outcomes, wok \in Outcomes :
        NoCode(Step1Result(b, rok, wok).res)
    /\ \A b \in CompletionBodies(UserIdInputs) :
        \A urok \in Outcomes, vrok \in Outcomes, uwok \in Outcomes, vwok \in Outcomes :
            NoCode(CompletionResult(b, urok, vrok, uwok, vwok).res)

\* send-code has stored a pending request, whose code only the bot then shows
C9_Issued ==
    /\ TwoStep
    /\ \E i \in Requests :
        /\ verifications[i].status = "pending"
        /\ \E replies \in BotReplies : \E r \in 1..Len(replies) :
                replies[r] = CodeReply(verifications[i].code)

\* the outcomes of the verify-code-step1 requests (every field given) that fail now
Step1Failures ==
    {o \in {Step1Result(b, rok, wok) :
                b \in {c \in Step1Bodies(UserIdInputs) : Step1Given(c)},
                rok \in Outcomes, wok \in Outcomes} :
        o.res.status # 200}

\* C10: any two failing verify-code-step1 requests (every field given) get the
\* same response and leave the same, unchanged store, whichever of code, handle,
\* userId, status or expiry is the cause.
C10_FailuresIndistinguishable ==
    \A o1 \in Step1Failures, o2 \in Step1Failures :
        /\ o1.res = o2.res
        /\ o1.verifications = o2.verifications
        /\ o1.verifications = verifications

\* what keeps body b from matching request i: the comparisons of the find that fail
Mismatches(i, b) ==
    {f \in {"telegram", "code", "userId"} : verifications[i][f] # b[f]}
    \cup (IF verifications[i].status # "pending" THEN {"status"} ELSE {})
    \cup (IF now >= verifications[i].expiresAt THEN {"expiry"} ELSE {})

\* requests are stored against which verify-code-step1 fails for a wrong handle
\* alone, a wrong code alone, a wrong userId alone and an elapsed expiry alone
C10_SingleCauses ==
    /\ TwoStep
    /\ \A cause \in {"telegram", "code", "userId", "expiry"} :
        \E i \in Requests, b \in Step1Bodies(UserIdInputs) :
            Step1Given(b) /\ Mismatches(i, b) = {cause}
\* C11: complete-registration (every field given) answers Conflict when the
\* username is in users, and NotFound/Expired when it is not and no step1-verified,
\* unexpired request exists for the userId; either way users and verifications
\* stay as they were.
C11_FailuresLeaveStore ==
    \A b \in CompletionBodies(UserIdInputs) :
        \A urok \in Outcomes, vrok \in Outcomes, uwok \in Outcomes, vwok \in Outcomes :
            CompletionGiven(b) =>
                LET o == CompletionResult(b, urok, vrok, uwok, vwok)
                    taken == \E k \in 1..Len(users) : users[k].username = b.username
                    valid == \E i \in Requests :
                                /\ verifications[i].userId = b.userId
                                /\ verifications[i].status = "step1-verified"
                                /\ now < verifications[i].expiresAt
                IN  /\ taken =>
                        /\ o.res = Http(400, Error("username-taken"))
                        /\ o.users = users /\ o.verifications = verifications
                    /\ (~taken /\ ~valid) =>
                        /\ o.res = Http(400, Error("invalid-or-expired-registration"))
                        /\ o.users = users /\ o.verifications = verifications
                    /\ o.res.status # 200 => (taken \/ ~valid)

\* a state in which complete-registration fails for a taken username with a valid
\* request at hand, and fails for a free username with no valid request
C11_BothFailures ==
    \E b1 \in CompletionBodies(UserIdInputs), b2 \in CompletionBodies(UserIdInputs) :
        /\ CompletionGiven(b1) /\ CompletionGiven(b2)
        /\ \E k \in 1..Len(users) : users[k].username = b1.username
        /\ \E i \in Requests :
                /\ verifications[i].userId = b1.userId
                /\ verifications[i].status = "step1-verified"
                /\ now < verifications[i].expiresAt
        /\ \A k \in 1..Len(users) : users[k].username # b2.username
        /\ \E i \in Requests :
                /\ verifications[i].userId = b2.userId
                /\ verifications[i].status = "step1-verified"
                /\ now >= verifications[i].expiresAt

\* the end-to-end scenario run from the present store: send-code for the handle
\* `typed`, Math.random() giving code; verify-code-step1 for the handle `stripped`;
\* complete-registration asking for username; verify-code-step1 repeated at time
\* later.  The four outcomes.
Scenario(typed, stripped, code, username, later) ==
    LET issued == IssueOutcome(verifications, uuid, now, typed, "N", "P", code, TRUE, TRUE)
        U1 == issued.res.body.userId
        step1 == Step1Outcome(issued.verifications, now, stripped, code, U1, TRUE, TRUE)
        done == CompletionOutcome(users, step1.verifications, now, U1, username, "pw", "N", "P",
                                  stripped, TRUE, TRUE, TRUE, TRUE)
        again == Step1Outcome(done.verifications, later, stripped, code, U1, TRUE, TRUE)
    IN  [issued |-> issued, step1 |-> step1, done |-> done, again |-> again]

\* C12: from every reachable store, send-code for "@A" yields (code, U1);
\* verify-code-step1("A", code, U1) makes the request step1-verified;
\* complete-registration(U1, a free username, ...) appends user U1 and completes
\* the request; verify-code-step1 with the same handle, code and userId fails then
\* and at every later time.
C12_EndToEnd ==
    \A code \in Codes, username \in UsernameInputs, later \in now..(MaxTime + 1) :
        (\A k \in 1..Len(users) : users[k].username # username) =>
            LET s == Scenario(<<"@", "A">>, <<"A">>, code, username, later)
                U1 == s.issued.res.body.userId
                n == Len(verifications) + 1
            IN  /\ s.issued.res.status = 200
                /\ s.issued.verifications[n].status = "pending"
                /\ s.issued.verifications[n].code = code
                /\ s.step1.res.status = 200
                /\ s.step1.verifications[n].status = "step1-verified"
                /\ s.done.res.status = 200
                /\ s.done.users = Append(users, NewUser(U1, username, "N", "P", <<"A">>))
                /\ s.done.verifications[n].status = "completed"
                /\ s.again.res = Step1Failure
                /\ s.again.verifications = s.done.verifications

\* the scenario has run through the handlers: the request issued for "@A" is
\* completed and its user is stored
C12_ScenarioRan ==
    /\ TwoStep
    /\ \E i \in Requests, k \in 1..Len(users) :
        /\ verifications[i].telegram = <<"A">>
        /\ verifications[i].status = "completed"
        /\ users[k].id = verifications[i].userId
        /\ Step1Result([telegram |-> <<"A">>, code |-> verifications[i].code,
                        userId |-> verifications[i].userId], TRUE, TRUE).res = Step1Failure
\* ---------------------------------------------------------------- properties of grading
\* the stored questions of one type, each as <<index of its test, its index there>>
StoredQuestions(type) ==
    {at \in (1..Len(tests)) \X (1..2) :
        /\ at[2] <= Len(tests[at[1]].questions)
        /\ tests[at[1]].questions[at[2]].type = type}

\* option ids a client can submit: those of the options, and one of no option
OptionIdProbes == {"A", "B", "C", "Z"}

\* selectedOptions arrays a client can submit
SelectionProbes ==
    {<<>>, <<"A">>, <<"A", "B">>, <<"B", "A">>, <<"A", "A", "B">>, <<"A", "B", "C">>,
     <<"A", "B", "Z">>, <<"Z">>}

\* texts a client can submit
TextProbes ==
    {<<>>, <<"A", "b">>, <<" ", "a", "B", " ">>, <<"\t", "A", "B", "\n">>, <<"a", " ", "b">>,
     <<"a">>, <<"a", "b", "b">>, <<" ">>}

Range(seq) == {seq[i] : i \in 1..Len(seq)}

\* C13: a multiple-answer answer is graded correct iff the set of its
\* selectedOptions is exactly the set of ids of the options flagged correct.
C13_SelectionExactlyCorrectSet ==
    \A at \in StoredQuestions("multiple-answer"), selected \in SelectionProbes :
        LET test == tests[at[1]]
            question == test.questions[at[2]]
            g == GradeAnswer(test, [questionId |-> question.id, selectedOptions |-> selected])
        IN  /\ ~g.threw
            /\ g.correct <=> Range(selected) = correctOptions(question)

\* C15: a multiple-choice answer is graded correct iff its optionId is the id of the
\* single option flagged correct, for every stored question, those with no or
\* several flagged options included.
C15_ChoiceEqualsSingleCorrect ==
    \A at \in StoredQuestions("multiple-choice"), optionId \in OptionIdProbes :
        LET test == tests[at[1]]
            question == test.questions[at[2]]
            g == GradeAnswer(test, [questionId |-> question.id, optionId |-> optionId])
        IN  /\ ~g.threw
            /\ g.correct <=> correctOptions(question) = {optionId}

\* a string without its leading, and without its trailing, whitespace
RECURSIVE DropLeading(_)
DropLeading(s) ==
    IF s = <<>> \/ Head(s) \notin WhiteSpace THEN s ELSE DropLeading(Tail(s))

RECURSIVE DropTrailing(_)
DropTrailing(s) ==
    IF s = <<>> \/ s[Len(s)] \notin WhiteSpace THEN s
    ELSE DropTrailing(SubSeq(s, 1, Len(s) - 1))

\* equality after trimming surrounding whitespace and case-folding
EqualTrimmedFolded(x, y) ==
    LET a == DropTrailing(DropLeading(x))
        b == DropLeading(DropTrailing(y))
    IN  /\ Len(a) = Len(b)
        /\ \A i \in 1..Len(a) : Lower(a[i]) = Lower(b[i])

\* C16: a text answer is graded correct iff its text and the stored correctAnswer
\* are equal after trimming surrounding whitespace and case-folding both.
C16_TextTrimmedFolded ==
    \A at \in StoredQuestions("text"), text \in TextProbes :
        LET test == tests[at[1]]
            question == test.questions[at[2]]
            g == GradeAnswer(test, [questionId |-> question.id, text |-> text])
        IN  /\ ~g.threw
            /\ g.correct <=> EqualTrimmedFolded(text, question.correctAnswer)

\* a stored result holds a text answer graded correct whose text differs from the
\* stored correctAnswer in case and surrounding whitespace
C16_GradedText ==
    \E r \in 1..Len(results), i \in 1..2, at \in StoredQuestions("text") :
        /\ i <= Len(results[r].answers)
        /\ HasField(results[r].answers[i], "text")
        /\ results[r].answers[i].questionId = tests[at[1]].questions[at[2]].id
        /\ results[r].answers[i].correct
        /\ results[r].answers[i].text # tests[at[1]].questions[at[2]].correctAnswer
\* the outcome of POST /api/results for caller and body on the present store
GradeResult(caller, body) ==
    GradeOutcome(tests, results, uuid, now, caller, body, TRUE, TRUE, TRUE)

\* the number of answers of a stored result that are flagged correct
CorrectAnswers(r) == Cardinality({i \in 1..Len(r.answers) : r.answers[i].correct})

\* C14: the stored and the returned score of every submission is
\* 100 * correctCount / totalQuestions, totalQuestions being the number of
\* questions of the test, not of the answers submitted.
C14_ScoreOverAllQuestions ==
    /\ \A r \in 1..Len(results) :
            results[r].score = Divide(100 * results[r].correctCount, results[r].totalQuestions)
    /\ \A caller \in Callers, b \in GradeBodies :
        LET o == GradeResult(caller, b)
            stored == o.results[Len(o.results)]
            test == tests[CHOOSE k \in 1..Len(tests) : tests[k].id = b.testId]
        IN  o.res.status = 201 =>
                /\ stored.totalQuestions = Len(test.questions)
                /\ stored.correctCount = CorrectAnswers(stored)
                /\ stored.score = Divide(100 * stored.correctCount, Len(test.questions))
                /\ o.res.body.score = stored.score
                /\ o.res.body.correctCount = stored.correctCount
                /\ o.res.body.totalQuestions = stored.totalQuestions

\* results are stored whose answers are fewer, and more, than the questions of
\* their test
C14_UnansweredAndExtra ==
    /\ \E r \in 1..Len(results) : Len(results[r].answers) < results[r].totalQuestions
    /\ \E r \in 1..Len(results) :
        /\ Len(results[r].answers) > results[r].totalQuestions
        /\ results[r].totalQuestions > 0
\* seq with x put in after its first p elements
InsertAt(seq, p, x) == SubSeq(seq, 1, p) \o <<x>> \o SubSeq(seq, p + 1, Len(seq))

\* C17: an answer whose questionId matches no question of the test is recorded
\* with correct = false and aborts nothing: the submission has the outcome it has
\* without that answer, the result is stored, and the other answers are graded as
\* they are without it.
C17_StrayAnswerRecorded ==
    \A caller \in Callers, b \in GradeBodies :
        HasField(b, "answers") =>
            \A p \in 0..Len(b.answers) :
                LET without == GradeResult(caller, b)
                    with == GradeResult(caller, [b EXCEPT !.answers = InsertAt(@, p, StrayAnswer)])
                    r0 == without.results[Len(without.results)]
                    r1 == with.results[Len(with.results)]
                IN  /\ with.res.status = without.res.status
                    /\ with.res.status = 201 =>
                        /\ Len(with.results) = Len(results) + 1
                        /\ r1.answers = InsertAt(r0.answers, p, GradedAnswer(StrayAnswer, FALSE))
                        /\ r1.correctCount = r0.correctCount
                        /\ r1.score = r0.score
                        /\ r1.totalQuestions = r0.totalQuestions

\* a stored result records a stray answer as incorrect beside an answer graded
\* correct
C17_StrayStored ==
    \E r \in 1..Len(results), i \in 1..3, j \in 1..3 :
        /\ i <= Len(results[r].answers) /\ j <= Len(results[r].answers)
        /\ results[r].answers[i] = GradedAnswer(StrayAnswer, FALSE)
        /\ results[r].answers[j].correct

\* an HTTP body as far as the answer key goes: none of the fields that carry it
NoAnswerKey(body) ==
    DOMAIN body \cap {"answers", "questions", "options", "correct", "correctAnswer", "test"} = {}

\* C18: the response of POST /api/results holds the result's id, score,
\* correctCount and totalQuestions and nothing else, no answer key in particular,
\* while the graded result is stored in full.
C18_ResponseRedacted ==
    \A caller \in Callers, b \in GradeBodies :
        LET o == GradeResult(caller, b)
            stored == o.results[Len(o.results)]
        IN  /\ NoAnswerKey(o.res.body)
            /\ o.res.status = 201 =>
                /\ DOMAIN o.res.body = {"id", "score", "correctCount", "totalQuestions"}
                /\ o.res.body = [f \in DOMAIN o.res.body |-> stored[f]]
                /\ DOMAIN stored = {"id", "testId", "userId", "answers", "score", "correctCount",
                                    "totalQuestions", "submittedAt"}
                /\ Len(stored.answers) = Len(b.answers)
                /\ \A i \in 1..Len(b.answers) :
                        \E flag \in BOOLEAN : stored.answers[i] = GradedAnswer(b.answers[i], flag)
            /\ o.res.status # 201 => DOMAIN o.res.body = {"error"} /\ o.results = results

\* a result is stored with its graded answers, for a test whose key flags options
C18_StoredInFull ==
    \E r \in 1..Len(results), at \in StoredQuestions("multiple-choice") :
        /\ results[r].testId = tests[at[1]].id
        /\ Len(results[r].answers) > 0
        /\ \A i \in 1..Len(results[r].answers) : HasField(results[r].answers[i], "correct")
\* a test that is not the one submitted for, stored beside it
DecoyTest == NewTest(90, 1, <<[type |-> "multiple-choice", options |-> OptionsNone]>>)

\* stores that hold the tests of this state among other contents
OtherStores ==
    {[tests |-> <<DecoyTest>> \o tests, results |-> <<>>, uuid |-> 0],
     [tests |-> tests \o <<DecoyTest>>, results |-> results, uuid |-> uuid],
     [tests |-> tests, results |-> <<>>, uuid |-> uuid]}

\* C19: Grade is deterministic: a submission of the same answers for the same
\* test gets the same response status and, when it is stored, the same score,
\* correctCount, totalQuestions and per-answer correct flags, whoever submits it,
\* whenever, and whatever else the store holds (other tests, earlier results).
C19_GradeDeterministic ==
    \A b \in GradeBodies, c1 \in Callers, c2 \in Callers, t \in {0, MaxTime}, s \in OtherStores :
        LET o1 == GradeResult(c1, b)
            o2 == GradeOutcome(s.tests, s.results, s.uuid, t, c2, b, TRUE, TRUE, TRUE)
            r1 == o1.results[Len(o1.results)]
            r2 == o2.results[Len(o2.results)]
        IN  /\ o1.res.status = o2.res.status
            /\ o1.res.status = 201 =>
                /\ r1.score = r2.score
                /\ r1.correctCount = r2.correctCount
                /\ r1.totalQuestions = r2.totalQuestions
                /\ r1.answers = r2.answers
                /\ o1.res.body.score = o2.res.body.score
                /\ o1.res.body.correctCount = o2.res.body.correctCount

\* the same answers were submitted twice for one test, by different callers, the
\* second after the first was stored
C19_SubmittedTwice ==
    /\ Len(results) = 2
    /\ results[1].testId = results[2].testId
    /\ results[1].userId # results[2].userId
    /\ Len(results[1].answers) > 0
    /\ results[1].answers = results[2].answers
    /\ results[1].correctCount > 0

\* a submission stores one more result, with an id no stored result has, and
\* leaves the stored ones alone; a refused one stores nothing
OneResultPerSubmission ==
    \A caller \in Callers, b \in GradeBodies :
        LET o == GradeResult(caller, b)
        IN  IF o.res.status = 201
            THEN /\ Len(o.results) = Len(results) + 1
                 /\ SubSeq(o.results, 1, Len(results)) = results
                 /\ o.results[Len(o.results)].id = o.res.body.id
                 /\ \A i \in 1..Len(results) : results[i].id # o.res.body.id
            ELSE o.results = results

\* a step leaves every stored result as it is or removes it whole, and stores at
\* most one result more
ResultsImmutableStep ==
    /\ \A i \in 1..Len(results), j \in 1..Len(results') :
            results'[j].id = results[i].id => results'[j] = results[i]
    /\ Cardinality({j \in 1..Len(results') :
            \A i \in 1..Len(results) : results[i].id # results'[j].id}) <= 1
    /\ \A i \in 1..Len(results'), j \in 1..Len(results') :
            results'[i].id = results'[j].id => i = j

\* C20: each successful submission creates exactly one result record, and no
\* later operation (a further submission, an update, publication or deletion of
\* a test) changes a field of a stored result; deleting a test removes its
\* results whole.
C20_ResultCreatedOnceImmutable == []OneResultPerSubmission /\ [][ResultsImmutableStep]_vars

\* a caller has two stored results for one test, the first untouched by the
\* second submission
C20_ResubmittedKept ==
    /\ Len(results) = 2
    /\ results[1].testId = results[2].testId
    /\ results[1].userId = results[2].userId
    /\ results[1].id # results[2].id
\* ---------------------------------------------------------------- properties of the store
\* ids of the requests in verifications.json
RequestIds(vs) == {vs[i].id : i \in 1..Len(vs)}

\* C21: a verification request, once in the verifications collection, is never
\* removed from it: over every step the set of request ids only grows.
C21_RequestsNeverRemoved == [][RequestIds(verifications) \subseteq RequestIds(verifications')]_vars
\* the outcome of send-code for body b on the present store
IssueResult(b, code, rok, wok) ==
    IssueOutcome(verifications, uuid, now, b.telegram, b.name, b.phone, code, rok, wok)

\* the outcome of POST /api/results on the present store, the file operations
\* succeeding or not
GradeResultUnder(caller, body, trok, rrok, rwok) ==
    GradeOutcome(tests, results, uuid, now, caller, body, trok, rrok, rwok)

Success(res) == res.status \in {200, 201}

\* C26: when a read or a write of the store fails during send-code,
\* verify-code-step1, complete-registration or POST /api/results, the response is
\* not a success: a success response is given only when every file operation of
\* the request succeeded.
C26_StorageFailureReported ==
    /\ \A b \in StoreIssueBodies, code \in Codes, rok \in Outcomes, wok \in Outcomes :
            Success(IssueResult(b, code, rok, wok).res) => rok /\ wok
    /\ \A b \in StoreStep1Bodies(UserIdInputs), rok \in Outcomes, wok \in Outcomes :
            Success(Step1Result(b, rok, wok).res) => rok /\ wok
    /\ \A b \in StoreCompletionBodies(UserIdInputs) :
        \A urok \in Outcomes, vrok \in Outcomes, uwok \in Outcomes, vwok \in Outcomes :
            Success(CompletionResult(b, urok, vrok, uwok, vwok).res) =>
                urok /\ vrok /\ uwok /\ vwok
    /\ \A c \in Callers, b \in GradeBodies :
        \A trok \in Outcomes, rrok \in Outcomes, rwok \in Outcomes :
            Success(GradeResultUnder(c, b, trok, rrok, rwok).res) => trok /\ rrok /\ rwok

\* the responses that report a missing field
ValidationError(res) ==
    /\ res.status = 400
    /\ res.body \in {Error("telegram-required"), Error("name-required"),
                     Error("phone-required"), Error("all-fields-required")}

IssueGiven(b) == b.telegram # <<>> /\ b.name # "" /\ b.phone # ""

\* C27: send-code, verify-code-step1, complete-registration and POST /api/results
\* each answer with a validation error when a required field is missing, and
\* then leave every collection (and the id counter) as it was, whatever the file
\* system does.
C27_MissingFieldRejected ==
    /\ \A b \in StoreIssueBodies, code \in Codes, rok \in Outcomes, wok \in Outcomes :
            ~IssueGiven(b) =>
                LET o == IssueResult(b, code, rok, wok)
                IN  ValidationError(o.res) /\ o.verifications = verifications /\ o.uuid = uuid
    /\ \A b \in StoreStep1Bodies(UserIdInputs), rok \in Outcomes, wok \in Outcomes :
            ~Step1Given(b) =>
                LET o == Step1Result(b, rok, wok)
                IN  ValidationError(o.res) /\ o.verifications = verifications
    /\ \A b \in StoreCompletionBodies(UserIdInputs) :
        \A urok \in Outcomes, vrok \in Outcomes, uwok \in Outcomes, vwok \in Outcomes :
            ~CompletionGiven(b) =>
                LET o == CompletionResult(b, urok, vrok, uwok, vwok)
                IN  ValidationError(o.res) /\ o.users = users /\ o.verifications = verifications
    /\ \A c \in Callers, b \in GradeBodies :
        \A trok \in Outcomes, rrok \in Outcomes, rwok \in Outcomes :
            (b.testId = 0 \/ ~HasField(b, "answers")) =>
                LET o == GradeResultUnder(c, b, trok, rrok, rwok)
                IN  ValidationError(o.res) /\ o.results = results /\ o.uuid = uuid

\* every collection the four operations write holds a record, and each operation
\* can be sent a body with a field missing
C27_StoreFilled ==
    /\ Len(verifications) > 0 /\ Len(users) > 1 /\ Len(tests) > 0 /\ Len(results) > 0
    /\ \E b \in StoreIssueBodies : ~IssueGiven(b)
    /\ \E b \in StoreStep1Bodies(UserIdInputs) : ~Step1Given(b)
    /\ \E b \in StoreCompletionBodies(UserIdInputs) : ~CompletionGiven(b)
    /\ \E b \in GradeBodies : ~HasField(b, "answers")
    /\ \E b \in GradeBodies : b.testId = 0

\* ---------------------------------------------------------------- properties of the relay
\* the replies the deployed bot's /code command would send to client c in this state
LookupReplies(c) ==
    IF deployment = "api"
    THEN {CodeOutcome(verifications, notifications, uuid, now, c.username, c.chatId,
                      vrok, nrok, nwok).res.replies :
            vrok \in Outcomes, nrok \in Outcomes, nwok \in Outcomes}
    ELSE {EsmCodeOutcome(verification, c.username, c.chatId, rok, wok).res.replies :
            rok \in Outcomes, wok \in Outcomes}

\* the stored requests that are pending and unexpired for the handle of `username`
ActiveFor(username) ==
    {i \in Requests : /\ Normalize(verifications[i].telegram) = Normalize(username)
                      /\ verifications[i].status = "pending"
                      /\ now < verifications[i].expiresAt}

NoneFound == {<<Reply("no-active-code")>>, <<Reply("no-code-found")>>}

\* C22: the lookup for a bot user's handle returns a pending, unexpired request of
\* that handle (with or without '@', in any case) whenever one exists, and otherwise
\* says that no active code was found; so it never returns a request that is
\* step1-verified, completed, expired, past expiresAt, or of another handle.
C22_LookupReturnsActive ==
    TwoStep =>
        \A c \in BotClients : \A replies \in LookupReplies(c) :
            c.username # <<>> =>
                IF ActiveFor(c.username) = {}
                THEN replies \in NoneFound
                ELSE \E i \in ActiveFor(c.username) :
                        replies = <<CodeReply(verifications[i].code)>>

\* what each lookup handler of the deployed bot would reply to client c and leave in
\* notifications.json
LookupResults(c) ==
    IF deployment = "api"
    THEN UNION {
            {[replies |-> o.res.replies, notifications |-> o.notifications] :
                o \in {StartOutcome(users, verifications, notifications, uuid, now, c.username,
                                    c.chatId, urok, uwok, vrok, nrok, nwok),
                       CodeOutcome(verifications, notifications, uuid, now, c.username,
                                   c.chatId, vrok, nrok, nwok),
                       TextOutcome(verifications, notifications, uuid, now, c.username,
                                   c.chatId, TRUE, vrok, nrok, nwok)}} :
            urok \in Outcomes, uwok \in Outcomes, vrok \in Outcomes, nrok \in Outcomes,
            nwok \in Outcomes}
    ELSE {[replies |-> o.res.replies, notifications |-> o.notifications] :
            o \in {LegacyMessageOutcome(verifications, notifications, uuid, now, c.username,
                                        vrok, nrok, nwok) :
                    vrok \in Outcomes, nrok \in Outcomes, nwok \in Outcomes}}

\* the codes a handler's replies show
CodesShown(replies) == {replies[r].code : r \in {q \in 1..Len(replies) : HasField(replies[q], "code")}}

\* n records the delivery of `code` to client c: sent, with sentAt, the userId of a
\* request that has the code, and the chat id
RecordsDelivery(n, c, code) ==
    /\ HasField(n, "sent") /\ n.sent = TRUE
    /\ HasField(n, "sentAt")
    /\ HasField(n, "chatId") /\ n.chatId = c.chatId
    /\ HasField(n, "userId")
    /\ \E i \in Requests : verifications[i].code = code /\ verifications[i].userId = n.userId

\* C23: each lookup that finds an active code appends exactly one notification with
\* sent = true and sentAt set, carrying the request's userId and the chat id; a lookup
\* that finds none appends no notification.
C23_LookupLogsOneSent ==
    deployment \in {"api", "root"} =>
        \A c \in BotClients : \A o \in LookupResults(c) :
            IF CodesShown(o.replies) = {}
            THEN o.notifications = notifications
            ELSE /\ Len(o.notifications) = Len(notifications) + 1
                 /\ SubSeq(o.notifications, 1, Len(notifications)) = notifications
                 /\ \E code \in CodesShown(o.replies) :
                        RecordsDelivery(o.notifications[Len(o.notifications)], c, code)

\* how many sendMessage calls the sweeps have made for the notification `id`
TimesAttempted(id) == Cardinality({k \in 1..Len(attempts) : attempts[k] = id})

\* the notification `id` is stored as sent
StoredSent(id) ==
    \E i \in 1..Len(notifications) :
        /\ notifications[i].id = id
        /\ HasField(notifications[i], "sent")
        /\ notifications[i].sent = TRUE

\* C24: a sweep marks every notification it attempted as sent, whether or not the
\* send succeeded, and over all sweeps (at startup, periodic, overlapping) each
\* notification is attempted at most once.
C24_ReplayAtMostOnce ==
    /\ \A k \in 1..Len(attempts) : TimesAttempted(attempts[k]) <= 1
    /\ sweeps = <<>> => \A k \in 1..Len(attempts) : StoredSent(attempts[k])

\* the code of the i-th stored request has been handed to the messaging channel for
\* its owner: a lookup logged it
Delivered(i) ==
    \E n \in 1..Len(notifications) :
        /\ HasField(notifications[n], "code")
        /\ notifications[n].code = verifications[i].code
        /\ notifications[n].userId = verifications[i].userId

\* the i-th stored request has expired or a later request of its handle replaced it
Lapsed(i) ==
    \/ verifications[i].status # "pending"
    \/ now >= verifications[i].expiresAt
    \/ \E j \in Requests :
            j > i /\ Normalize(verifications[j].telegram) = Normalize(verifications[i].telegram)

\* the i-th stored request is still to be delivered and the channel is running
WaitsOnline(i) == i \in Requests /\ online /\ ~Delivered(i) /\ ~Lapsed(i)

\* C25: a code issued while the messaging channel is down is, once the channel runs
\* again, eventually delivered to the owner of the handle at least once, unless the
\* request expires or is superseded first (the bot process being scheduled fairly).
\* Every request of SpecRelay is issued while the channel is down; the channel going
\* down again also discharges the obligation.
C25_OfflineCodeDelivered ==
    \A i \in 1..MaxRequests :
        WaitsOnline(i) ~> (i \in Requests /\ (Delivered(i) \/ Lapsed(i) \/ ~online))

\* the results of the in-process bot's lookup handlers for client c in this state
ApiLookups(c) ==
    UNION {
        {StartOutcome(users, verifications, notifications, uuid, now, c.username, c.chatId,
                      urok, uwok, vrok, nrok, nwok).res,
         CodeOutcome(verifications, notifications, uuid, now, c.username, c.chatId,
                     vrok, nrok, nwok).res,
         TextOutcome(verifications, notifications, uuid, now, c.username, c.chatId, TRUE,
                     vrok, nrok, nwok).res} :
        urok \in Outcomes, uwok \in Outcomes, vrok \in Outcomes, nrok \in Outcomes,
        nwok \in Outcomes}

\* C28: a failure of the transport send, or of recording the notification, never
\* fails the interactive lookup: the handler completes, no error leaves it, and the
\* verification request is as it was. (No outcome of a lookup handler carries
\* verifications.json: the handlers read it and never write it.)
C28_LookupSurvivesFailures ==
    /\ (deployment = "api" /\ online) =>
            \A c \in BotClients : \A res \in ApiLookups(c) :
                \A sok \in TransportOutcomes, mode \in RejectionModes :
                    (\E r \in 1..Len(res.replies) : HasField(res.replies[r], "code"))
                        => Survives(res, sok, mode)

\* the ids of the registered users of a collection
UserIds(file) == {file[k].id : k \in {n \in 1..Len(file) : HasField(file[n], "id")}}

\* the step in which the ESM bot's suspended bot.start writes users.json
StartWrites == esm.pc = "read" /\ esm'.pc = "idle" /\ users' # users

\* C29: the web process and the bot process read, modify and write users.json with
\* no lock, and there is an interleaving where both report completion and only the
\* later writer's change survives: the bot's write is built from what it read, so
\* it drops every user stored since (a user that complete-registration inserted is
\* lost). The interleaving itself is the state C29_RegistrationLost.
C29_LaterWriterWins ==
    [][StartWrites => UserIds(users') \cap (UserIds(users) \ UserIds(esm.users)) = {}]_vars

\* complete-registration answered 200 for a request and its user is no longer stored
C29_RegistrationLost ==
    /\ deployment = "esm"
    /\ \E i \in Requests :
        /\ verifications[i].status = "completed"
        /\ \A k \in 1..Len(users) :
                ~(HasField(users[k], "id") /\ users[k].id = verifications[i].userId)
        /\ \E k \in 1..Len(users) : HasField(users[k], "chatId")

\* notifications.json is still what the k-th suspended sweep read, but for the marks
\* that sweep has made itself
SweepCopyCurrent(k) ==
    LET held == sweeps[k].notifications
    IN  /\ Len(held) = Len(notifications)
        /\ \A i \in 1..Len(held) :
            \/ held[i] = notifications[i]
            \/ /\ i \notin sweeps[k].todo
               /\ \E t \in 0..MaxTime : held[i] = MarkSent(notifications[i], t)

\* C30: within one process, the read-modify-write of a collection by one operation
\* is atomic with respect to every other handler of that process: between an
\* operation's read and its write no other handler of the process reads or writes
\* the collection.
C30_HandlersAtomic ==
    /\ Len(sweeps) <= 1
    /\ \A k \in 1..Len(sweeps) : SweepCopyCurrent(k)

\* ---------------------------------------------------------------- properties of the whole
\* the number x lies between 0 and k: NaN and Infinity lie nowhere
Within(x, k) == x.den # 0 /\ 0 <= x.num /\ x.num <= k * x.den

\* C31: for every stored result, whatever answers were submitted (several answers
\* for one questionId, a test whose question list is empty),
\* 0 <= correctCount <= totalQuestions and 0 <= score <= 100.
C31_ScoreInRange ==
    \A r \in 1..Len(results) :
        /\ 0 <= results[r].correctCount
        /\ results[r].correctCount <= results[r].totalQuestions
        /\ Within(results[r].score, 100)

\* C32: after any sequence of operations, also one in which complete-registration's
\* write of verifications fails after its write of users succeeded, no two records
\* of users have the same id: each verification userId yields at most one user.
C32_UserIdsUnique ==
    \A j, k \in 1..Len(users) :
        (HasField(users[j], "id") /\ HasField(users[k], "id") /\ users[j].id = users[k].id)
            => j = k

\* C33: every user that complete-registration creates has the telegram handle of the
\* step1-verified request that authorised it (the same handle up to '@' and case):
\* no account is bound to a handle other than the one whose code was confirmed.
C33_UserBoundToConfirmedHandle ==
    TwoStep =>
        \A k \in 1..Len(users) :
            (HasField(users[k], "role") /\ users[k].role = "student") =>
                \E i \in Requests :
                    /\ verifications[i].userId = users[k].id
                    /\ Normalize(verifications[i].telegram) = Normalize(users[k].telegram)

\* send-code with handle h and code `code` on the store as it is, then
\* verify-code-step1 with the same h, that code and the userId returned, at time t
ConfirmAfterIssue(h, code, t) ==
    LET o == IssueOutcome(verifications, uuid, now, h, "N", "P", code, TRUE, TRUE)
    IN  Step1Outcome(o.verifications, t, h, code, o.res.body.userId, TRUE, TRUE)

\* C34: handle matching is consistent across operations: for every handle h that
\* send-code accepts (with or without a leading '@', in any letter case),
\* verify-code-step1 with the same h, the issued code and the returned userId,
\* before expiry, succeeds.
C34_SameHandleConfirms ==
    TwoStep =>
        \A h \in IssueHandles, code \in Codes :
            ConfirmAfterIssue(h, code, now).res.status = 200

\* the caller who submits userId holds a step1-verified, unexpired request
HoldsVerifiedRequest(userId) ==
    \E i \in Requests : CompletionMatches(verifications[i], userId, now)

\* the response of complete-registration to a full body with this userId and username
CompletionResponse(userId, username) ==
    CompletionOutcome(users, verifications, now, userId, username, "pw", "N", "P", <<"a">>,
                      TRUE, TRUE, TRUE, TRUE).res

\* C35: a caller who holds no valid step1-verified, unexpired request cannot learn
\* from complete-registration whether a username exists: for such a caller the
\* outcome is the same for a taken and for a free username.
C35_UsernameNotProbed ==
    TwoStep =>
        \A userId \in UserIdInputs \cup {MaxIds + 1} :
            ~HoldsVerifiedRequest(userId) =>
                \A u1 \in UsernameInputs, u2 \in UsernameInputs :
                    CompletionResponse(userId, u1) = CompletionResponse(userId, u2)

\* what tells the records of a collection apart: the id, or the chat id of a record
\* the bot stored
Key(r) == IF HasField(r, "id") THEN r.id ELSE r.chatId

\* the step replaces the stored records of `file` by one record that was not there
ReplacedByNewRecord(file, written) ==
    /\ file # <<>>
    /\ Len(written) = 1
    /\ \A k \in 1..Len(file) : Key(file[k]) # Key(written[1])

\* C36: an operation whose read of a collection fails never writes that collection
\* back: a failed read cannot make the records stored in users, verifications,
\* notifications, tests or results give way to a collection that holds the
\* operation's new record only.
C36_FailedReadNotWrittenBack ==
    [][/\ ~ReplacedByNewRecord(users, users')
       /\ ~ReplacedByNewRecord(verifications, verifications')
       /\ ~ReplacedByNewRecord(notifications, notifications')
       /\ ~ReplacedByNewRecord(tests, tests')
       /\ ~ReplacedByNewRecord(results, results')]_vars

\* users.json after client c has sent /start to the in-process bot
UsersAfterStart(c) ==
    StartOutcome(users, verifications, notifications, uuid, now, c.username, c.chatId,
                 TRUE, TRUE, TRUE, TRUE, TRUE).users

\* the response of complete-registration on the users collection us
CompletionResponseOn(us, userId, username) ==
    CompletionOutcome(us, verifications, now, userId, username, "pw", "N", "P", <<"a">>,
                      TRUE, TRUE, TRUE, TRUE).res

\* C37: bot interaction does not change the outcome of registration: for any
\* username, complete-registration with a valid step1-verified request answers the
\* same whether or not the owner of the handle has sent /start to the bot before,
\* the bot handlers leaving the usernames of users as they were.
C37_StartLeavesRegistrationAlone ==
    deployment = "api" =>
        \A c \in BotClients, userId \in UserIdInputs, username \in UsernameInputs :
            HoldsVerifiedRequest(userId) =>
                CompletionResponseOn(UsersAfterStart(c), userId, username)
                    = CompletionResponseOn(users, userId, username)

\* the ids of the callers who are no administrators
NonAdminIds == {c.id : c \in {d \in Callers : d.role # "admin"}}

\* the test `id` is stored and published
Published(id) == \E k \in 1..Len(tests) : tests[k].id = id /\ tests[k].published

\* C38: a non-admin user has a result stored only for a test that is published when
\* it is submitted, as GET /api/tests/:id refuses unpublished tests to non-admins:
\* no result of a student refers to a test that was unpublished at submission.
C38_ResultsOnlyForPublished ==
    [][\A r \in (Len(results) + 1)..Len(results') :
            results'[r].userId \in NonAdminIds => Published(results'[r].testId)]_vars

\* a record that carries no part of the answer key at its top level
Keyless(r) == DOMAIN r \cap {"correct", "correctAnswer"} = {}

\* a question as sent, with its options if it has any, carries no part of the key
QuestionKeyless(q) ==
    /\ Keyless(q)
    /\ HasField(q, "options") => \A i \in 1..Len(q.options) : Keyless(q.options[i])

\* questions with the key in other places than POST /api/tests' clients put it
OddQuestions ==
    {[id |-> 1, type |-> "text", correctAnswer |-> <<"a">>, correct |-> TRUE, text |-> "T"],
     [id |-> 1, type |-> "multiple-choice", correctAnswer |-> <<"A">>,
      options |-> <<[id |-> "A", text |-> "T", correct |-> TRUE, correctAnswer |-> <<"A">>]>>],
     [id |-> 1, type |-> "other", options |-> <<[correct |-> TRUE]>>]}

\* C39: for every test and every non-admin caller, the test that GET /api/tests/:id
\* returns has no option `correct` flag and no correctAnswer in any question,
\* whatever fields the stored questions carry.
C39_StudentTestKeyless ==
    /\ \A c \in Callers, id \in TestIdInputs :
            LET res == GetTestOutcome(tests, c, id, TRUE)
            IN  (c.role # "admin" /\ res.status = 200) =>
                    \A i \in 1..Len(res.body.questions) : QuestionKeyless(res.body.questions[i])
    /\ \A q \in OddQuestions : QuestionKeyless(StudentQuestion(q))

\* a student is sent a published test whose stored questions carry the key
C39_KeyedTestServed ==
    \E c \in Callers, k \in 1..Len(tests) :
        /\ c.role # "admin"
        /\ GetTestOutcome(tests, c, tests[k].id, TRUE).status = 200
        /\ \E i \in 1..Len(tests[k].questions) : ~QuestionKeyless(tests[k].questions[i])

====
